---------------------------- MODULE Spec2Model ----------------------------
(***************************************************************************)
(* ClawRouter: the request-deduplication cache (src/src/dedup.ts) and the  *)
(* dispatcher that drives it (proxy.ts, after section 4.F and section 5 of *)
(* the specification).                                                     *)
(*                                                                         *)
(* Time is Date.now() in milliseconds.  A response body is modelled by its *)
(* length, the error type it carries and the model that produced it.       *)
(***************************************************************************)
EXTENDS Integers, Sequences, FiniteSets, TLC

VARIABLES
    now,        \* Date.now()
    inflight,   \* RequestDeduplicator.inflight : key -> resolvers (promise ids)
    completed,  \* RequestDeduplicator.completed: key -> CachedResponse
    promises,   \* every promise handed out by getInflight, in creation order
    reqs,       \* dispatcher: per-request handler state
    call        \* a call of one of the pure functions: its input and result

vars == <<now, inflight, completed, promises, reqs, call>>

---------------------------------------------------------------------------
(* Program constants *)

DEFAULT_TTL_MS == 30000

MAX_BODY_SIZE == 1048576

MAX_FALLBACK_ATTEMPTS == 3

(* The constructor's ttlMs parameter, left at its default. *)
ttlMs == DEFAULT_TTL_MS

---------------------------------------------------------------------------
(* Bounds of the model *)

\* Date.now() is observed at 0, one TTL later, and up to this many
\* milliseconds after that.
MaxDrift == 1

\* getInflight hands out at most this many promises in a run.
MaxWaiters == 2

\* The dispatcher handles at most this many requests in a run.
MaxRequests == 2

\* Dedup keys (RequestDeduplicator.hash values) that occur.
Keys == {"k1", "k2"}

\* Date.now() advances by one millisecond or by a whole TTL, so that the
\* age of an entry can be exactly ttlMs and exactly ttlMs + 1.
TickSteps == {1, ttlMs}

Horizon == ttlMs + MaxDrift

---------------------------------------------------------------------------
(* Values *)

\* CachedResponse {status, headers, body, completedAt}: the body is its
\* length, the error.type of its JSON ("" for a completion) and the model
\* that answered.
Response(status, len, type, model, at) ==
    [status |-> status, len |-> len, type |-> type, model |-> model,
     completedAt |-> at]

\* `undefined`, in the shape of a response so that values compare.
Undefined == Response(0, 0, "undefined", "", 0)

\* What a handler writes to its client from a response: status, headers and
\* body.  completedAt is bookkeeping of the cache and is not sent.
Wire(result) == [result EXCEPT !.completedAt = 0]

\* The sentinel built by removeInflight.  Its body is the JSON text
\* {"error":{"message":"Original request failed, please retry",
\*  "type":"dedup_origin_failed"}}, 90 bytes long.
SentinelLen == 90

\* The sentinel with the status of a gateway timeout.
OriginFailedAs504(t) == Response(504, SentinelLen, "upstream_timeout", "", t)

OriginFailed(t) == Response(503, SentinelLen, "dedup_origin_failed", "", t)

\* A pending promise.
Pending(key) == [key |-> key, settled |-> FALSE, value |-> Undefined, calls |-> 0]

---------------------------------------------------------------------------
(* Map helpers (JavaScript Map) *)

MapHas(m, key) == key \in DOMAIN m

MapSet(m, key, v) == [k \in DOMAIN m \cup {key} |-> IF k = key THEN v ELSE m[k]]

MapDelete(m, key) == [k \in DOMAIN m \ {key} |-> m[k]]

EmptyMap == [k \in {} |-> Undefined]

Range(s) == {s[i] : i \in DOMAIN s}

---------------------------------------------------------------------------
(* RequestDeduplicator, src/src/dedup.ts *)

\* Expired with the comparison off by one: an entry exactly ttlMs old is
\* already dropped.
ExpiredAtTtl(entry, t) == t - entry.completedAt >= ttlMs

\* An entry older than the TTL (lines 100 and 167).
Expired(entry, t) == t - entry.completedAt > ttlMs

\* getCached's return value.
getCachedResult(c, key, t) ==
    IF ~MapHas(c, key) THEN Undefined
    ELSE IF Expired(c[key], t) THEN Undefined
    ELSE c[key]

\* getCached's effect on the completed map: lazy eviction.
getCachedEvict(c, key, t) ==
    IF MapHas(c, key) /\ Expired(c[key], t) THEN MapDelete(c, key) ELSE c

\* prune(): drop every expired completed entry.
prune(c, t) == [k \in {x \in DOMAIN c : ~Expired(c[x], t)} |-> c[k]]

\* StoreCompleted without the size check.
StoreCompletedAnySize(c, key, result) == MapSet(c, key, result)

\* complete(), lines 125-128: only cache responses within the size limit.
StoreCompleted(c, key, result) ==
    IF result.len <= MAX_BODY_SIZE THEN MapSet(c, key, result) ELSE c

\* resolve(result) on each promise of ids: the first call settles a promise,
\* a later call on a settled promise is a no-op of the Promise.  A promise's
\* value is recorded as its waiter passes it on (Wire).
ResolveAll(ps, ids, result) ==
    [i \in DOMAIN ps |->
        IF i \in ids
        THEN [ps[i] EXCEPT !.calls = @ + 1,
                           !.settled = TRUE,
                           !.value = IF ps[i].settled THEN @ ELSE Wire(result)]
        ELSE ps[i]]

\* markInflight(key): a fresh entry with no resolvers, whatever was there.
markInflight(m, key) == MapSet(m, key, <<>>)

\* The resolvers that complete / removeInflight call: those of the current
\* in-flight entry of the key.
ResolversOf(m, key) == IF MapHas(m, key) THEN Range(m[key]) ELSE {}

\* complete(key, result) as a step.
complete(key, result) ==
    /\ completed' = prune(StoreCompleted(completed, key, result), now)
    /\ promises' = ResolveAll(promises, ResolversOf(inflight, key), result)
    /\ inflight' = MapDelete(inflight, key)

\* removeInflight that wakes the waiters and forgets to delete the entry.
removeInflightKeepingEntry(key) ==
    /\ promises' = ResolveAll(promises, ResolversOf(inflight, key), OriginFailed(now))
    /\ inflight' = inflight
    /\ completed' = completed

\* removeInflight that also stores the sentinel as the key's response.
removeInflightCachingFailure(key) ==
    /\ promises' = ResolveAll(promises, ResolversOf(inflight, key), OriginFailed(now))
    /\ inflight' = MapDelete(inflight, key)
    /\ completed' = IF MapHas(inflight, key)
                    THEN MapSet(completed, key, OriginFailed(now))
                    ELSE completed

\* removeInflight(key) as a step.
removeInflight(key) ==
    /\ promises' = ResolveAll(promises, ResolversOf(inflight, key), OriginFailed(now))
    /\ inflight' = MapDelete(inflight, key)
    /\ completed' = completed

\* getInflight(key) on an existing entry: a new promise whose resolver is
\* pushed on the entry (the executor runs synchronously).
getInflightPush(key) ==
    /\ promises' = Append(promises, Pending(key))
    /\ inflight' = [inflight EXCEPT ![key] = Append(@, Len(promises) + 1)]

---------------------------------------------------------------------------
(* The cache driven by arbitrary callers *)

\* What a caller may pass as a response: an upstream success or failure,
\* within or over the size limit, stamped by the caller.
Statuses == {200, 502}

BodyLens == {MAX_BODY_SIZE, MAX_BODY_SIZE + 1}

Stamps(t) == {t, 0}

CallerResponses(t) ==
    {Response(200, n, "", "", t) : n \in BodyLens}
    \cup {Response(200, MAX_BODY_SIZE, "", "", at) : at \in Stamps(t)}
    \cup {Response(s, MAX_BODY_SIZE, "provider_error", "", t) : s \in Statuses \ {200}}

GetCached(key) ==
    /\ completed' = getCachedEvict(completed, key, now)
    /\ UNCHANGED <<now, inflight, promises, reqs>>
    /\ UNCHANGED call

GetInflight(key) ==
    /\ Len(promises) < MaxWaiters
    /\ IF MapHas(inflight, key)
       THEN /\ getInflightPush(key)
       ELSE UNCHANGED <<inflight, promises>>
    /\ UNCHANGED <<now, completed, reqs>>
    /\ UNCHANGED call

MarkInflight(key) ==
    /\ inflight' = markInflight(inflight, key)
    /\ UNCHANGED <<now, completed, promises, reqs>>
    /\ UNCHANGED call

Complete(key, result) ==
    /\ complete(key, result)
    /\ UNCHANGED <<now, reqs>>
    /\ UNCHANGED call

RemoveInflight(key) ==
    /\ removeInflight(key)
    /\ UNCHANGED <<now, reqs>>
    /\ UNCHANGED call

Tick(d) ==
    /\ now + d <= Horizon
    /\ now + d >= ttlMs
    /\ now' = now + d
    /\ UNCHANGED <<inflight, completed, promises, reqs>>
    /\ UNCHANGED call

---------------------------------------------------------------------------
(* Routing configuration, src/src/router/config.lionheart.ts *)

\* LIONHEART_ROUTING_CONFIG.tiers
tiers ==
    [SIMPLE |->
        [primary |-> "local/exo-llama-8b",
         fallback |-> <<"local/ollama-qwen3-14b", "claude-cli/sonnet",
                        "deepseek/deepseek-chat">>],
     MEDIUM |->
        [primary |-> "local/ollama-qwen3-14b",
         fallback |-> <<"codex/gpt-5.3", "claude-cli/sonnet",
                        "deepseek/deepseek-chat">>],
     COMPLEX |->
        [primary |-> "claude-cli/sonnet",
         fallback |-> <<"codex/gpt-5.3", "claude-cli/opus",
                        "deepseek/deepseek-chat">>],
     REASONING |->
        [primary |-> "claude-cli/opus",
         fallback |-> <<"codex/o3", "deepseek/deepseek-reasoner",
                        "claude-cli/sonnet">>]]

\* getFallbackChain that puts the primary after the fallbacks.
getFallbackChainPrimaryLast(tier, tierConfigs) ==
    tierConfigs[tier].fallback \o <<tierConfigs[tier].primary>>

\* getFallbackChain that lists the primary again after the fallbacks.
getFallbackChainPrimaryTwice(tier, tierConfigs) ==
    <<tierConfigs[tier].primary>> \o tierConfigs[tier].fallback
        \o <<tierConfigs[tier].primary>>

\* getFallbackChain(tier, tierConfigs): [primary, ...fallback]
getFallbackChain(tier, tierConfigs) ==
    <<tierConfigs[tier].primary>> \o tierConfigs[tier].fallback

---------------------------------------------------------------------------
(* The dispatcher, spec.md section 4.F (proxy.ts) *)

\* The designated free model of the emergency attempt.
FREE_MODEL == "nvidia/gpt-oss-120b"

\* The tier the router gives the request body behind each dedup key: the
\* same body is routed the same way.
RoutedTier == [k \in Keys |-> IF k = "k1" THEN "REASONING" ELSE "SIMPLE"]

\* The first n elements of a sequence.
Take(s, n) == SubSeq(s, 1, IF Len(s) < n THEN Len(s) ELSE n)

\* Step 6: the models of the fallback loop, at most MAX_FALLBACK_ATTEMPTS.
ModelsToTry(key) ==
    Take(getFallbackChain(RoutedTier[key], tiers), MAX_FALLBACK_ATTEMPTS)

\* How one upstream attempt can end.
Outcomes == {"ok", "oversize", "error", "timeout"}

Succeeded(outcome) == outcome \in {"ok", "oversize"}

\* What upstream answers: a completion (within or over the capture limit),
\* a fallback-triggering error, or nothing before the deadline.
UpstreamResponse(outcome, model, t) ==
    CASE outcome = "ok" -> Response(200, MAX_BODY_SIZE, "", model, t)
      [] outcome = "oversize" -> Response(200, MAX_BODY_SIZE + 1, "", model, t)
      [] outcome = "error" -> Response(402, 0, "provider_error", model, 0)
      [] OTHER -> Response(504, 0, "upstream_timeout", model, 0)

\* A request not yet received.
NoRequest ==
    [pc |-> "new", key |-> "", kind |-> "", dispatchedAt |-> 0, endedAt |-> 0,
     modelCalls |-> <<>>, waiter |-> 0, resp |-> Undefined]

\* No pure function has been called.
NoCall == [fn |-> "", arg |-> <<>>, ret |-> <<>>, done |-> FALSE]

Init ==
    /\ call = NoCall
    /\ now = 0
    /\ inflight = EmptyMap
    /\ completed = EmptyMap
    /\ promises = <<>>
    /\ reqs = [r \in 1..MaxRequests |-> NoRequest]

Next ==
    \/ \E key \in Keys : GetCached(key)
    \/ \E key \in Keys : GetInflight(key)
    \/ \E key \in Keys : MarkInflight(key)
    \/ \E key \in Keys : \E result \in CallerResponses(now) : Complete(key, result)
    \/ \E key \in Keys : RemoveInflight(key)
    \/ \E d \in TickSteps : Tick(d)

Spec == Init /\ [][Next]_vars


---------------------------------------------------------------------------
(* Dispatcher steps *)

Dispatching(r) == reqs[r].pc \in {"dispatch", "emergency"}

\* Step 4, the dedup lookup, and on a miss step 5: one synchronous block.
Handle(r, key) ==
    /\ reqs[r].pc = "new"
    /\ r > 1 => reqs[r - 1].pc # "new"
    /\ LET hit == getCachedResult(completed, key, now)
           arrived == [NoRequest EXCEPT !.key = key]
       IN  IF hit # Undefined
           THEN /\ reqs' = [reqs EXCEPT ![r] =
                    [arrived EXCEPT !.pc = "done", !.kind = "cache",
                                    !.resp = Wire(hit)]]
                /\ UNCHANGED <<inflight, completed, promises>>
           ELSE IF MapHas(inflight, key)
           THEN /\ Len(promises) < MaxWaiters
                /\ getInflightPush(key)
                /\ completed' = getCachedEvict(completed, key, now)
                /\ reqs' = [reqs EXCEPT ![r] =
                    [arrived EXCEPT !.pc = "waiting", !.kind = "inflight",
                                    !.waiter = Len(promises) + 1]]
           ELSE /\ inflight' = markInflight(inflight, key)
                /\ completed' = getCachedEvict(completed, key, now)
                /\ reqs' = [reqs EXCEPT ![r] =
                    [arrived EXCEPT !.pc = "dispatch", !.kind = "origin",
                                    !.dispatchedAt = now]]
                /\ UNCHANGED promises
    /\ UNCHANGED now
    /\ UNCHANGED call

\* The model of the next attempt of the fallback loop.
NextModel(r) == ModelsToTry(reqs[r].key)[Len(reqs[r].modelCalls) + 1]

\* Step 6: one upstream attempt of the fallback loop ends.  On success the
\* response is passed through and complete(key, response) is called; on a
\* fallback-triggering error or a deadline the loop goes on, and after the
\* last model either the emergency attempt is made or, step 8, the request
\* fails with removeInflight(key) and upstream's last error.
Attempt(r, outcome, emergency) ==
    /\ reqs[r].pc = "dispatch"
    /\ LET model == NextModel(r)
           called == Append(reqs[r].modelCalls, model)
           resp == UpstreamResponse(outcome, model, now)
       IN  IF Succeeded(outcome)
           THEN /\ complete(reqs[r].key, resp)
                /\ reqs' = [reqs EXCEPT ![r].pc = "done",
                                        ![r].resp = Wire(resp),
                                        ![r].modelCalls = called,
                                        ![r].endedAt = now]
           ELSE IF Len(called) < Len(ModelsToTry(reqs[r].key))
           THEN /\ reqs' = [reqs EXCEPT ![r].modelCalls = called]
                /\ UNCHANGED <<inflight, completed, promises>>
           ELSE IF emergency
           THEN /\ reqs' = [reqs EXCEPT ![r].pc = "emergency",
                                        ![r].modelCalls = called]
                /\ UNCHANGED <<inflight, completed, promises>>
           ELSE /\ removeInflight(reqs[r].key)
                /\ reqs' = [reqs EXCEPT ![r].pc = "done",
                                        ![r].resp = Wire(resp),
                                        ![r].modelCalls = called,
                                        ![r].endedAt = now]
    /\ UNCHANGED now
    /\ UNCHANGED call

\* Step 8: the single emergency attempt on the free model ends.
EmergencyAttempt(r, outcome) ==
    /\ reqs[r].pc = "emergency"
    /\ LET called == Append(reqs[r].modelCalls, FREE_MODEL)
           resp == UpstreamResponse(outcome, FREE_MODEL, now)
       IN  /\ IF Succeeded(outcome)
              THEN complete(reqs[r].key, resp)
              ELSE removeInflight(reqs[r].key)
           /\ reqs' = [reqs EXCEPT ![r].pc = "done", ![r].resp = Wire(resp),
                                   ![r].modelCalls = called,
                                   ![r].endedAt = now]
    /\ UNCHANGED now
    /\ UNCHANGED call

\* Section 5, cancellation: the client of a dispatching request goes away.
\* A deployment that (a) lets the upstream call run to completion goes on
\* as if the client were there; one that (b) cancels upstream calls
\* removeInflight(key) and writes no response.  This step is (b).
Disconnect(r) ==
    /\ Dispatching(r)
    /\ removeInflight(reqs[r].key)
    /\ reqs' = [reqs EXCEPT ![r].pc = "done", ![r].endedAt = now]
    /\ UNCHANGED now
    /\ UNCHANGED call

\* Step 4, in-flight hit: the awaited promise is settled and its response is
\* streamed to the waiting request's client.
Deliver(r) ==
    /\ reqs[r].pc = "waiting"
    /\ promises[reqs[r].waiter].settled
    /\ reqs' = [reqs EXCEPT ![r].pc = "done",
                            ![r].resp = promises[reqs[r].waiter].value]
    /\ UNCHANGED <<now, inflight, completed, promises>>
    /\ UNCHANGED call

DispatchInit ==
    /\ call = NoCall
    /\ now = 0
    /\ inflight = EmptyMap
    /\ completed = EmptyMap
    /\ promises = <<>>
    /\ reqs = [r \in 1..MaxRequests |-> NoRequest]

DispatchNext ==
    \/ \E r \in 1..MaxRequests : \E key \in Keys : Handle(r, key)
    \/ \E r \in 1..MaxRequests : \E outcome \in Outcomes :
          \E emergency \in BOOLEAN : Attempt(r, outcome, emergency)
    \/ \E r \in 1..MaxRequests : \E outcome \in Outcomes :
          EmergencyAttempt(r, outcome)
    \/ \E r \in 1..MaxRequests : Disconnect(r)
    \/ \E r \in 1..MaxRequests : Deliver(r)
    \/ \E d \in TickSteps : Tick(d)

\* Every upstream attempt has a deadline and a settled promise runs its
\* continuation, so a request that can take a step takes one.
Progress(r) ==
    \/ \E outcome \in Outcomes : \E emergency \in BOOLEAN :
          Attempt(r, outcome, emergency)
    \/ \E outcome \in Outcomes : EmergencyAttempt(r, outcome)
    \/ Deliver(r)

DispatchSpec == DispatchInit /\ [][DispatchNext]_vars

FairDispatchSpec ==
    DispatchSpec /\ \A r \in 1..MaxRequests : WF_vars(Progress(r))


---------------------------------------------------------------------------
(* Claims about the cache under arbitrary callers (Spec) *)

\* C2: every waiter handed out by getInflight(key) is resolved exactly
\* once: no promise has its resolver called twice, and no promise is still
\* unresolved when its key is no longer in flight.
C2_WaitersResolvedExactlyOnce ==
    \A i \in DOMAIN promises :
        /\ promises[i].calls <= 1
        /\ promises[i].calls = 0 => MapHas(inflight, promises[i].key)

\* C3: no key is in both the completed map and the in-flight map.
C3_CachedAndInflightDisjoint ==
    DOMAIN completed \cap DOMAIN inflight = {}

\* C4: the completed map never holds a failed upstream response: every
\* entry has a success status.
C4_NoFailedResponseCached ==
    \A k \in DOMAIN completed : completed[k].status < 400

C6_StampedAtCompletion ==
    [][\A k \in Keys : \A r \in CallerResponses(now) :
          (Complete(k, r) /\ r.len <= MAX_BODY_SIZE) =>
              getCachedResult(completed', k, now') = r
      ]_vars

\* C7: every entry of the completed map has a body of at most
\* MAX_BODY_SIZE bytes; complete(key, r) with a larger body stores nothing
\* for the key (the map only loses expired entries), resolves the waiters
\* of the key's in-flight entry with r and removes the entry.
C7_OversizeNotCached ==
    /\ [](\A k \in DOMAIN completed : completed[k].len <= MAX_BODY_SIZE)
    /\ [][\A k \in Keys : \A r \in CallerResponses(now) :
            (Complete(k, r) /\ r.len > MAX_BODY_SIZE) =>
                /\ \A j \in DOMAIN completed' :
                      MapHas(completed, j) /\ completed'[j] = completed[j]
                /\ ~(MapHas(completed', k) /\ completed'[k] = r)
                /\ ~MapHas(inflight', k)
                /\ \A i \in DOMAIN promises :
                      IF MapHas(inflight, k) /\ i \in Range(inflight[k])
                      THEN /\ promises'[i].settled
                           /\ promises'[i].value = Wire(r)
                      ELSE promises'[i] = promises[i]
       ]_vars

\* C7 witness: a waiter has received a response larger than MAX_BODY_SIZE,
\* its key is no longer in flight and has no completed entry.
C7_Witness ==
    \E i \in DOMAIN promises :
        /\ promises[i].settled
        /\ promises[i].value.len > MAX_BODY_SIZE
        /\ ~MapHas(inflight, promises[i].key)
        /\ ~MapHas(completed, promises[i].key)

---------------------------------------------------------------------------
(* Claims about the dispatcher (DispatchSpec, FairDispatchSpec) *)

Requests == 1..MaxRequests

Origins(key) == {r \in Requests : reqs[r].kind = "origin" /\ reqs[r].key = key}

\* The dispatch of request r ended with a response the cache keeps.
CachedSuccess(r) ==
    /\ reqs[r].pc = "done"
    /\ reqs[r].resp.status = 200
    /\ reqs[r].resp.len <= MAX_BODY_SIZE

\* C1 as claimed: of the requests with one dedup key that arrive within one
\* TTL at most one is dispatched upstream, whatever the outcome of the first
\* response.
C1_AtMostOneDispatchWithinTtl ==
    \A k \in Keys : \A r1, r2 \in Origins(k) :
        r1 < r2 => reqs[r2].dispatchedAt - reqs[r1].dispatchedAt > ttlMs

\* C1 as amended: at any moment at most one dispatch per key is in
\* progress; a request whose key is being dispatched, or was dispatched
\* with a successful response of at most MAX_BODY_SIZE bytes that completed
\* no more than one TTL ago, is not dispatched but answered with that
\* dispatch's response (or, if the dispatch then fails, with the 503
\* sentinel); a later dispatch of the key within the TTL happens only after
\* the earlier one failed, was cancelled or returned an oversize body.
C1_AtMostOneDispatchUnlessFailed ==
    /\ \A k \in Keys :
          Cardinality({r \in Origins(k) : Dispatching(r)}) <= 1
    /\ \A k \in Keys : \A r1, r2 \in Origins(k) :
          r1 < r2 =>
              /\ reqs[r1].pc = "done"
              /\ reqs[r2].dispatchedAt >= reqs[r1].endedAt
              /\ CachedSuccess(r1) =>
                    reqs[r2].dispatchedAt - reqs[r1].endedAt > ttlMs
    /\ \A r \in Requests :
          /\ reqs[r].kind = "cache" =>
                \E r1 \in Origins(reqs[r].key) :
                    r1 < r /\ CachedSuccess(r1) /\ reqs[r].resp = reqs[r1].resp
          /\ (reqs[r].kind = "inflight" /\ reqs[r].pc = "done") =>
                \E r1 \in Origins(reqs[r].key) :
                    /\ r1 < r
                    /\ reqs[r1].pc = "done"
                    /\ \/ reqs[r].resp = reqs[r1].resp /\ reqs[r1].resp.status = 200
                       \/ reqs[r].resp = Wire(OriginFailed(0))

\* C1 witness: a request found its key's response in the cache exactly one
\* TTL after the dispatch completed, and was not dispatched.
C1_Witness ==
    \E r1, r2 \in Requests :
        /\ r1 < r2
        /\ reqs[r1].kind = "origin" /\ CachedSuccess(r1)
        /\ reqs[r2].key = reqs[r1].key
        /\ reqs[r2].kind = "cache"
        /\ reqs[r2].resp = reqs[r1].resp
        /\ now - reqs[r1].endedAt = ttlMs

\* C8: every in-flight entry made on a dedup miss is eventually removed, by
\* the one complete or removeInflight that ends its dispatch (on upstream
\* success, exhaustion of the chain, deadline, client disconnect), and every
\* request waiting on an in-flight entry eventually gets its response.  An
\* entry is removed only by the step that ends its dispatch, and an ended
\* dispatch takes no further step.
C8_InflightEventuallyEnded ==
    /\ \A k \in Keys : MapHas(inflight, k) ~> ~MapHas(inflight, k)
    /\ \A r \in Requests : (reqs[r].pc = "waiting") ~> (reqs[r].pc = "done")
    /\ [](\A k \in Keys :
            MapHas(inflight, k) <=> \E r \in Origins(k) : Dispatching(r))
    /\ [][\A r \in Requests : reqs[r].pc = "done" => reqs'[r] = reqs[r]]_vars

\* C8 witness: a request that waited on an in-flight entry has been served
\* the response of the dispatch, and the entry is gone.
C8_Witness ==
    \E r \in Requests :
        /\ reqs[r].kind = "inflight"
        /\ reqs[r].pc = "done"
        /\ reqs[r].resp.status = 200
        /\ ~MapHas(inflight, reqs[r].key)

C10_ExhaustionRemovesInflight ==
    [][\A r \in Requests :
          (Dispatching(r) /\ reqs'[r].pc = "done" /\ reqs'[r].resp.status >= 400) =>
              LET k == reqs[r].key
                  calls == reqs'[r].modelCalls
              IN  /\ ~MapHas(inflight', k)
                  /\ ~MapHas(completed', k)
                  /\ Len(calls) >= Len(ModelsToTry(k))
                  /\ reqs'[r].resp.model = calls[Len(calls)]
                  /\ reqs'[r].resp.type \in {"provider_error", "upstream_timeout"}
                  /\ \A i \in DOMAIN promises' : promises'[i].key = k =>
                        /\ promises'[i].settled
                        /\ promises'[i].calls = 1
                        /\ (i \in ResolversOf(inflight, k)) =>
                              /\ promises'[i].value.status = 503
                              /\ promises'[i].value.type = "dedup_origin_failed"
      ]_vars

\* C10 witness: a dispatch failed on every model including the free one,
\* its client got the free model's error, and a request that waited on the
\* key got the 503 sentinel.
C10_Witness ==
    \E r1, r2 \in Requests :
        /\ reqs[r1].kind = "origin" /\ reqs[r1].pc = "done"
        /\ reqs[r1].resp.status >= 400
        /\ reqs[r1].resp.model = FREE_MODEL
        /\ reqs[r2].key = reqs[r1].key
        /\ reqs[r2].kind = "inflight" /\ reqs[r2].pc = "done"
        /\ reqs[r2].resp.status = 503
        /\ reqs[r2].resp.type = "dedup_origin_failed"
        /\ ~MapHas(inflight, reqs[r1].key)
        /\ ~MapHas(completed, reqs[r1].key)

---------------------------------------------------------------------------
(* The dispatcher's intake, spec.md section 4.F steps 1-3 (proxy.ts) *)

\* Proxy options of the compression tests (startProxy).
maxRequestSizeKB == 200

compressionThresholdKB == 50

\* Body sizes in KB on both sides of the two thresholds.
BodySizesKB ==
    {compressionThresholdKB, compressionThresholdKB + 1,
     maxRequestSizeKB, maxRequestSizeKB + 1}

\* A size check that lets a body of any size through.
TooLargeNever(sizeKB) == FALSE

\* Steps 1-3: the size test against maxRequestSizeKB.
TooLarge(sizeKB) == sizeKB > maxRequestSizeKB

\* Step 3: compression runs when the body is over the threshold; the
\* pipeline's output (content rewritten, codebook headers prepended) has
\* the size compressedKB.
SizeAfterCompression(bodyKB, compressedKB) ==
    IF bodyKB > compressionThresholdKB THEN compressedKB ELSE bodyKB

\* Every upstream attempt of step 6 carries one payment header.
PaymentAttempts(r) == Len(reqs[r].modelCalls)

\* The 413 of steps 1-3.
RequestTooLarge == Response(413, 0, "request_too_large", "", 0)

\* Steps 1-5 for one request: the body is read and validated, compressed
\* when over the threshold, rejected with 413 when over the size limit
\* before or after compression, and otherwise looked up and dispatched.
Receive(r, key, bodyKB, compressedKB) ==
    IF TooLarge(bodyKB) \/ TooLarge(SizeAfterCompression(bodyKB, compressedKB))
    THEN /\ reqs[r].pc = "new"
         /\ r > 1 => reqs[r - 1].pc # "new"
         /\ reqs' = [reqs EXCEPT ![r] =
                [NoRequest EXCEPT !.pc = "done", !.kind = "rejected",
                                  !.key = key, !.resp = RequestTooLarge]]
         /\ UNCHANGED <<now, inflight, completed, promises, call>>
    ELSE Handle(r, key)

IntakeNext ==
    \/ \E r \in 1..MaxRequests : \E key \in Keys :
          \E bodyKB \in BodySizesKB : \E compressedKB \in BodySizesKB :
              Receive(r, key, bodyKB, compressedKB)
    \/ \E r \in 1..MaxRequests : \E outcome \in Outcomes :
          \E emergency \in BOOLEAN : Attempt(r, outcome, emergency)
    \/ \E r \in 1..MaxRequests : \E outcome \in Outcomes :
          EmergencyAttempt(r, outcome)
    \/ \E r \in 1..MaxRequests : Disconnect(r)
    \/ \E r \in 1..MaxRequests : Deliver(r)
    \/ \E d \in TickSteps : Tick(d)

IntakeSpec == DispatchInit /\ [][IntakeNext]_vars

---------------------------------------------------------------------------
(* Compression layer 1, src/src/compression/layers/deduplication.ts *)

\* Longest message list given to the layer.
MaxMessages == 4

\* NormalizedMessage.  An absent content, tool_call_id or name is "", as
\* the code reads it (x || ""); has_tool_calls tells an absent tool_calls
\* from an empty one.
Message(role, content, tool_call_id, tool_calls) ==
    [role |-> role, content |-> content, tool_call_id |-> tool_call_id,
     name |-> "", has_tool_calls |-> tool_calls # <<>>,
     tool_calls |-> tool_calls]

\* A tool call of the assistant: the same function and arguments under
\* different ids.
ToolCall(id) == [id |-> id, name |-> "get_weather", args |-> "{}"]

ToolCallIds == {"call_1", "call_2"}

Messages ==
    {Message("system", "s", "", <<>>), Message("user", "u", "", <<>>),
     Message("assistant", "a", "", <<>>), Message("tool", "t", "", <<>>)}
    \cup {Message("tool", "t", id, <<>>) : id \in ToolCallIds}
    \cup {Message("assistant", "", "", <<ToolCall(id)>>) : id \in ToolCallIds}

MessageLists == UNION {[1..n -> Messages] : n \in 0..MaxMessages}

\* A hash of the role alone.
hashMessageRoleOnly(message) == <<message.role>>

\* hashMessage: the MD5 of the parts joined by "|", here the parts
\* themselves; the id of a tool call is not among them.
hashMessage(message) ==
    <<message.role, message.content, message.tool_call_id, message.name>>
    \o (IF message.has_tool_calls
        THEN <<[i \in DOMAIN message.tool_calls |->
                  [name |-> message.tool_calls[i].name,
                   args |-> message.tool_calls[i].args]]>>
        ELSE <<>>)

\* A first pass that collects no id.
referencedToolCallIdsNone(messages) == {}

\* deduplicateMessages, first pass: the ids that tool messages refer to.
referencedToolCallIds(messages) ==
    {messages[i].tool_call_id : i \in
        {j \in DOMAIN messages :
            messages[j].role = "tool" /\ messages[j].tool_call_id # ""}}

\* deduplicateMessages, the loop from message i on: the result and the
\* count of the messages dropped.
RECURSIVE dedupLoop(_, _, _, _, _)
dedupLoop(messages, i, referenced, seen, result) ==
    IF i > Len(messages)
    THEN [messages |-> result, duplicatesRemoved |-> 0]
    ELSE LET message == messages[i]
             keep == dedupLoop(messages, i + 1, referenced, seen,
                               Append(result, message))
         IN  IF message.role \in {"system", "user", "tool"} THEN keep
             ELSE IF /\ message.role = "assistant"
                     /\ message.has_tool_calls
                     /\ \E c \in DOMAIN message.tool_calls :
                           message.tool_calls[c].id \in referenced
             THEN keep
             ELSE IF hashMessage(message) \notin seen
             THEN dedupLoop(messages, i + 1, referenced,
                            seen \cup {hashMessage(message)},
                            Append(result, message))
             ELSE [dedupLoop(messages, i + 1, referenced, seen, result)
                      EXCEPT !.duplicatesRemoved = @ + 1]

deduplicateMessages(messages) ==
    LET looped == dedupLoop(messages, 1, referencedToolCallIds(messages),
                            {}, <<>>)
    IN  [messages |-> looped.messages,
         duplicatesRemoved |-> looped.duplicatesRemoved,
         originalCount |-> Len(messages)]

CompressionInit ==
    /\ now = 0
    /\ inflight = EmptyMap
    /\ completed = EmptyMap
    /\ promises = <<>>
    /\ reqs = [r \in 1..MaxRequests |-> NoRequest]
    /\ \E messages \in MessageLists :
          call = [fn |-> "deduplicateMessages", arg |-> messages,
                  ret |-> <<>>, done |-> FALSE]

DeduplicateMessages ==
    /\ call.fn = "deduplicateMessages"
    /\ ~call.done
    /\ call' = [call EXCEPT !.ret = deduplicateMessages(call.arg),
                            !.done = TRUE]
    /\ UNCHANGED <<now, inflight, completed, promises, reqs>>

CompressionNext == DeduplicateMessages

CompressionSpec == CompressionInit /\ [][CompressionNext]_vars

\* Every tool message with a tool_call_id comes after an assistant message
\* whose tool_calls has that id.
ToolCallsPaired(messages) ==
    \A i \in DOMAIN messages :
        (messages[i].role = "tool" /\ messages[i].tool_call_id # "") =>
            \E j \in 1..(i - 1) :
                /\ messages[j].role = "assistant"
                /\ \E c \in DOMAIN messages[j].tool_calls :
                      messages[j].tool_calls[c].id = messages[i].tool_call_id

\* C12: when every tool message of the input that has a tool_call_id comes
\* after an assistant message whose tool_calls has that id, the same is
\* true of the output of deduplicateMessages.
C12_ToolCallPairingPreserved ==
    (call.fn = "deduplicateMessages" /\ call.done /\ ToolCallsPaired(call.arg))
        => ToolCallsPaired(call.ret.messages)

\* C12 witness: the layer removed a duplicate from a list that has a tool
\* result paired with its assistant tool call.
C12_Witness ==
    /\ call.fn = "deduplicateMessages" /\ call.done
    /\ ToolCallsPaired(call.arg)
    /\ \E i \in DOMAIN call.arg :
          call.arg[i].role = "tool" /\ call.arg[i].tool_call_id # ""
    /\ call.ret.duplicatesRemoved > 0

---------------------------------------------------------------------------
(* Canonicalization and the dedup key, src/src/dedup.ts lines 28-94 *)

\* Longest content string, in tokens, and longest messages array.
MaxContent == 2

MaxArrayLen == 1

\* A string is a sequence of tokens: "ts1" and "ts2" are two timestamp
\* markers "[SUN 2026-02-07 13:30 PST] " with different times (the text
\* TIMESTAMP_PATTERN matches, trailing blanks included), "x" is other text.
TimestampMarkers == {"ts1", "ts2"}

Tokens == TimestampMarkers \cup {"x"}

\* JSON values as JSON.parse gives them: strings, arrays, and objects with
\* their keys in insertion order.  A body that is not JSON is raw bytes.
Str(tokens) == [t |-> "str", v |-> tokens]

Arr(items) == [t |-> "arr", v |-> items]

Obj(pairs) == [t |-> "obj", v |-> pairs]

Raw(bytes) == [t |-> "raw", v |-> bytes]

Pair(key, value) == [k |-> key, val |-> value]

\* The object keys of a chat request, in the order of Array.prototype.sort
\* (UTF-16 code units).
SortedJsonKeys == <<"content", "messages", "model", "role">>

Strings == {Str(tokens) : tokens \in UNION {[1..n -> Tokens] : n \in 0..MaxContent}}

MessageObjects ==
    {Obj(<<Pair("content", c)>>) : c \in Strings}
    \cup {Obj(<<Pair("role", Str(<<"x">>)), Pair("content", c)>>) : c \in Strings}
    \cup {Obj(<<Pair("content", c), Pair("role", Str(<<"ts1">>))>>) : c \in Strings}

MessageArrays ==
    {Arr(items) : items \in UNION {[1..n -> MessageObjects] : n \in 0..MaxArrayLen}}

Bodies ==
    {Obj(<<Pair("model", Str(<<"x">>)), Pair("messages", a)>>) : a \in MessageArrays}
    \cup {Obj(<<Pair("messages", a), Pair("model", Str(<<"x">>))>>) : a \in MessageArrays}
    \cup {Raw(<<"x">>), Raw(<<"ts1", "x">>)}

\* value.replace(TIMESTAMP_PATTERN, ""): the pattern is anchored at the
\* start and not global, so one leading marker goes.
stripLeadingTimestamp(tokens) ==
    IF tokens # <<>> /\ Head(tokens) \in TimestampMarkers
    THEN Tail(tokens) ELSE tokens

\* stripTimestamps(obj)
RECURSIVE stripTimestamps(_)
stripTimestamps(obj) ==
    IF obj.t = "str" THEN obj
    ELSE IF obj.t = "arr"
    THEN Arr([i \in DOMAIN obj.v |-> stripTimestamps(obj.v[i])])
    ELSE Obj([i \in DOMAIN obj.v |->
            IF obj.v[i].k = "content" /\ obj.v[i].val.t = "str"
            THEN Pair(obj.v[i].k, Str(stripLeadingTimestamp(obj.v[i].val.v)))
            ELSE Pair(obj.v[i].k, stripTimestamps(obj.v[i].val))])

\* Object.keys(obj).sort(): the keys of the object in sorted order.
RECURSIVE sortKeys(_, _)
sortKeys(pairs, order) ==
    IF order = <<>> THEN <<>>
    ELSE (IF \E i \in DOMAIN pairs : pairs[i].k = Head(order)
          THEN <<Head(order)>> ELSE <<>>)
         \o sortKeys(pairs, Tail(order))

\* obj[key]
Get(pairs, key) == pairs[CHOOSE i \in DOMAIN pairs : pairs[i].k = key].val

\* The same JSON value with the keys of every object written in the
\* opposite order.
RECURSIVE ReverseKeys(_)
ReverseKeys(obj) ==
    IF obj.t = "str" THEN obj
    ELSE IF obj.t = "arr"
    THEN Arr([i \in DOMAIN obj.v |-> ReverseKeys(obj.v[i])])
    ELSE Obj([i \in DOMAIN obj.v |->
            Pair(obj.v[Len(obj.v) + 1 - i].k,
                 ReverseKeys(obj.v[Len(obj.v) + 1 - i].val))])

\* canonicalize that walks the keys in reverse insertion order.
canonicalizeReversing(obj) == ReverseKeys(obj)

\* canonicalize that leaves the keys as they come.
RECURSIVE canonicalizeUnsorted(_)
canonicalizeUnsorted(obj) ==
    IF obj.t = "str" THEN obj
    ELSE IF obj.t = "arr"
    THEN Arr([i \in DOMAIN obj.v |-> canonicalizeUnsorted(obj.v[i])])
    ELSE Obj([i \in DOMAIN obj.v |->
            Pair(obj.v[i].k, canonicalizeUnsorted(obj.v[i].val))])

\* canonicalize(obj)
RECURSIVE canonicalize(_)
canonicalize(obj) ==
    IF obj.t = "str" THEN obj
    ELSE IF obj.t = "arr"
    THEN Arr([i \in DOMAIN obj.v |-> canonicalize(obj.v[i])])
    ELSE LET keys == sortKeys(obj.v, SortedJsonKeys)
         IN  Obj([i \in DOMAIN keys |->
                    Pair(keys[i], canonicalize(Get(obj.v, keys[i])))])

\* JSON.stringify(value), as a sequence of lexemes.
RECURSIVE stringify(_)
RECURSIVE stringifyItems(_, _)
stringifyItems(items, i) ==
    IF i > Len(items) THEN <<>>
    ELSE (IF i > 1 THEN <<",">> ELSE <<>>)
         \o (IF "k" \in DOMAIN items[i]
             THEN <<items[i].k, ":">> \o stringify(items[i].val)
             ELSE stringify(items[i]))
         \o stringifyItems(items, i + 1)

stringify(value) ==
    IF value.t = "str" THEN <<"\"">> \o value.v \o <<"\"">>
    ELSE IF value.t = "arr" THEN <<"[">> \o stringifyItems(value.v, 1) \o <<"]">>
    ELSE <<"{">> \o stringifyItems(value.v, 1) \o <<"}">>

\* The canonicalization RequestDeduplicator.hash applies to a parsed body.
canonicalBody(parsed) == canonicalize(stripTimestamps(parsed))

\* RequestDeduplicator.hash(body): the digest of the canonical JSON text,
\* or of the raw bytes when the body does not parse; the digest is one to
\* one on the texts of the model.
hash(body) ==
    IF body.t = "raw" THEN <<"sha256">> \o body.v
    ELSE <<"sha256">> \o stringify(canonicalBody(body))

\* The same JSON value with the leading timestamp marker of every content
\* string that has one replaced by marker.
RECURSIVE Retime(_, _)
Retime(obj, marker) ==
    IF obj.t = "str" THEN obj
    ELSE IF obj.t = "arr"
    THEN Arr([i \in DOMAIN obj.v |-> Retime(obj.v[i], marker)])
    ELSE Obj([i \in DOMAIN obj.v |->
            IF /\ obj.v[i].k = "content" /\ obj.v[i].val.t = "str"
               /\ obj.v[i].val.v # <<>>
               /\ Head(obj.v[i].val.v) \in TimestampMarkers
            THEN Pair(obj.v[i].k, Str(<<marker>> \o Tail(obj.v[i].val.v)))
            ELSE Pair(obj.v[i].k, Retime(obj.v[i].val, marker))])

\* The bodies that differ from body only in the order of object keys and
\* in the leading timestamp marker of content strings.
Variants(body) ==
    IF body.t = "raw" THEN {body}
    ELSE {body, ReverseKeys(body)}
         \cup {Retime(body, m) : m \in TimestampMarkers}
         \cup {ReverseKeys(Retime(body, m)) : m \in TimestampMarkers}

\* The content strings of a JSON value.
RECURSIVE contentStrings(_)
contentStrings(obj) ==
    IF obj.t = "str" THEN {}
    ELSE IF obj.t = "arr"
    THEN UNION {contentStrings(obj.v[i]) : i \in DOMAIN obj.v}
    ELSE UNION {IF obj.v[i].k = "content" /\ obj.v[i].val.t = "str"
                THEN {obj.v[i].val.v}
                ELSE contentStrings(obj.v[i].val) : i \in DOMAIN obj.v}

DedupKeyInit ==
    /\ now = 0
    /\ inflight = EmptyMap
    /\ completed = EmptyMap
    /\ promises = <<>>
    /\ reqs = [r \in 1..MaxRequests |-> NoRequest]
    /\ \/ \E body \in {b \in Bodies : b.t # "raw"} :
             call = [fn |-> "canonicalize", arg |-> body,
                     ret |-> <<>>, done |-> FALSE]
       \/ \E body \in Bodies : \E other \in Variants(body) :
             call = [fn |-> "hash", arg |-> <<body, other>>,
                     ret |-> <<>>, done |-> FALSE]

\* The canonicalization of hash applied to a parsed body.
Canonicalize ==
    /\ call.fn = "canonicalize"
    /\ ~call.done
    /\ call' = [call EXCEPT !.ret = canonicalBody(call.arg), !.done = TRUE]
    /\ UNCHANGED <<now, inflight, completed, promises, reqs>>

\* RequestDeduplicator.hash applied to two bodies.
Hash ==
    /\ call.fn = "hash"
    /\ ~call.done
    /\ call' = [call EXCEPT !.ret = <<hash(call.arg[1]), hash(call.arg[2])>>,
                            !.done = TRUE]
    /\ UNCHANGED <<now, inflight, completed, promises, reqs>>

DedupKeyNext == Canonicalize \/ Hash

DedupKeySpec == DedupKeyInit /\ [][DedupKeyNext]_vars

\* C13 as claimed: the canonicalization of hash (strip the leading
\* timestamp marker of every content string, sort the keys) gives the same
\* value when applied to its own result, for every JSON body.
C13_CanonicalizationIdempotent ==
    (call.fn = "canonicalize" /\ call.done) =>
        canonicalBody(call.ret) = call.ret

\* C13 as amended: the canonicalization of hash is idempotent for every
\* JSON body none of whose content strings starts with more than one
\* timestamp marker, and the key sorting of canonicalize alone is
\* idempotent for every JSON body; each application strips one leading
\* marker, so a content that starts with two markers loses the second one
\* on the second application.
C13_IdempotentOnSingleMarkers ==
    (call.fn = "canonicalize" /\ call.done) =>
        /\ (\A c \in contentStrings(call.arg) :
                ~(Len(c) >= 2 /\ c[1] \in TimestampMarkers
                              /\ c[2] \in TimestampMarkers))
           => canonicalBody(call.ret) = call.ret
        /\ canonicalize(canonicalize(call.arg)) = canonicalize(call.arg)
        /\ \A c \in contentStrings(call.arg) :
              stripLeadingTimestamp(c) \in contentStrings(call.ret)

\* C13 witness: a body with its keys out of order and a content that starts
\* with one timestamp marker was canonicalized to something different, on
\* which a second application changes nothing.
C13_Witness ==
    /\ call.fn = "canonicalize" /\ call.done
    /\ call.arg.v[1].k = "model"
    /\ \E c \in contentStrings(call.arg) :
          Len(c) = 2 /\ c[1] \in TimestampMarkers /\ c[2] = "x"
    /\ \A c \in contentStrings(call.arg) :
          ~(Len(c) >= 2 /\ c[1] \in TimestampMarkers /\ c[2] \in TimestampMarkers)
    /\ call.ret # call.arg
    /\ canonicalBody(call.ret) = call.ret

\* C14: two JSON bodies that differ only in the order of object keys and in
\* the leading timestamp marker of content strings get the same dedup key
\* from hash.
C14_SameKeyForReorderedRetimed ==
    (call.fn = "hash" /\ call.done) => call.ret[1] = call.ret[2]

\* C14 witness: two different bodies, one with the keys in the opposite
\* order and another timestamp at the start of a content, got one key.
C14_Witness ==
    /\ call.fn = "hash" /\ call.done
    /\ call.arg[1].t = "obj"
    /\ call.arg[1].v[1].k # call.arg[2].v[1].k
    /\ \E c \in contentStrings(call.arg[1]) :
          /\ c # <<>>
          /\ Head(c) \in TimestampMarkers
          /\ c \notin contentStrings(call.arg[2])
    /\ call.ret[1] = call.ret[2]

---------------------------------------------------------------------------
(* The selector, src/src/router/config.lionheart.ts lines 119-305 *)

Tiers == {"SIMPLE", "MEDIUM", "COMPLEX", "REASONING"}

\* LIONHEART_ROUTING_CONFIG.agenticTiers
agenticTiers ==
    [SIMPLE |->
        [primary |-> "local/ollama-qwen3-14b",
         fallback |-> <<"codex/gpt-5.3", "claude-cli/sonnet",
                        "deepseek/deepseek-chat">>],
     MEDIUM |->
        [primary |-> "local/ollama-qwen3-14b",
         fallback |-> <<"codex/gpt-5.3", "claude-cli/sonnet",
                        "deepseek/deepseek-chat">>],
     COMPLEX |->
        [primary |-> "claude-cli/sonnet",
         fallback |-> <<"codex/gpt-5.3", "claude-cli/opus",
                        "deepseek/deepseek-chat">>],
     REASONING |->
        [primary |-> "claude-cli/opus",
         fallback |-> <<"codex/o3", "deepseek/deepseek-reasoner",
                        "claude-cli/sonnet">>]]

\* ModelPricing, in cents per million tokens.
Price(inputPrice, outputPrice) ==
    [inputPrice |-> inputPrice, outputPrice |-> outputPrice]

\* LIONHEART_MODEL_PRICING
LIONHEART_MODEL_PRICING ==
    [m \in {"local/exo-llama-8b", "local/exo-llama-3b",
            "local/ollama-qwen3-14b", "claude-cli/sonnet", "claude-cli/opus",
            "codex/gpt-5.3", "codex/o3", "deepseek/deepseek-chat",
            "deepseek/deepseek-reasoner", "anthropic/claude-opus-4"} |->
        CASE m = "deepseek/deepseek-chat" -> Price(14, 28)
          [] m = "deepseek/deepseek-reasoner" -> Price(55, 219)
          [] m = "anthropic/claude-opus-4" -> Price(1500, 7500)
          [] OTHER -> Price(0, 0)]

\* The key under which selectModel and calculateModelCost look up the
\* baseline price.
BASELINE_MODEL == "anthropic/claude-opus-4.5"

\* A pricing table that has the baseline model, as the table the tests
\* build from the model list.
PricingWithBaseline ==
    [m \in DOMAIN LIONHEART_MODEL_PRICING \cup {BASELINE_MODEL} |->
        IF m = BASELINE_MODEL THEN Price(1500, 7500)
        ELSE LIONHEART_MODEL_PRICING[m]]

PricingTables == {LIONHEART_MODEL_PRICING, PricingWithBaseline}

\* modelPricing.get(model) with the ?? 0 of the price fields.
priceOf(modelPricing, model) ==
    IF model \in DOMAIN modelPricing THEN modelPricing[model] ELSE Price(0, 0)

\* (tokens / 1_000_000) * price for input and output, in units of 1e-8
\* dollar.
costOf(modelPricing, model, estimatedInputTokens, maxOutputTokens) ==
    estimatedInputTokens * priceOf(modelPricing, model).inputPrice
    + maxOutputTokens * priceOf(modelPricing, model).outputPrice

\* A fraction; savings is one.
Ratio(num, den) == [num |-> num, den |-> den]

\* savings that takes no account of the profile.
savingsOfAnyProfile(routingProfile, baselineCost, costEstimate) ==
    IF baselineCost > 0
    THEN Ratio(IF baselineCost - costEstimate > 0
               THEN baselineCost - costEstimate ELSE 0, baselineCost)
    ELSE Ratio(0, 1)

\* The savings expression of selectModel and calculateModelCost.
savingsOf(routingProfile, baselineCost, costEstimate) ==
    IF routingProfile = "premium" THEN Ratio(0, 1)
    ELSE IF baselineCost > 0
    THEN Ratio(IF baselineCost - costEstimate > 0
               THEN baselineCost - costEstimate ELSE 0, baselineCost)
    ELSE Ratio(0, 1)

\* What selectModel and calculateModelCost write to the console or a log
\* when modelPricing.get(model) is undefined: nothing.
missingPricingDiagnostics(modelPricing, model) == <<>>

\* calculateModelCost(model, modelPricing, estimatedInputTokens,
\* maxOutputTokens, routingProfile)
calculateModelCost(model, modelPricing, estimatedInputTokens, maxOutputTokens, routingProfile) ==
    LET costEstimate == costOf(modelPricing, model, estimatedInputTokens,
                               maxOutputTokens)
        baselineCost == costOf(modelPricing, BASELINE_MODEL,
                               estimatedInputTokens, maxOutputTokens)
    IN  [costEstimate |-> costEstimate, baselineCost |-> baselineCost,
         savings |-> savingsOf(routingProfile, baselineCost, costEstimate)]

\* selectModel that takes the first fallback in place of the primary.
selectModelFirstFallback(tier, confidence, method, reasoning, tierConfigs, modelPricing, estimatedInputTokens, maxOutputTokens, routingProfile) ==
    LET model == tierConfigs[tier].fallback[1]
        costEstimate == costOf(modelPricing, model, estimatedInputTokens,
                               maxOutputTokens)
        baselineCost == costOf(modelPricing, BASELINE_MODEL,
                               estimatedInputTokens, maxOutputTokens)
    IN  [model |-> model, tier |-> tier, confidence |-> confidence,
         method |-> method, reasoning |-> reasoning,
         costEstimate |-> costEstimate, baselineCost |-> baselineCost,
         savings |-> savingsOf(routingProfile, baselineCost, costEstimate)]

\* selectModel(tier, confidence, method, reasoning, tierConfigs,
\* modelPricing, estimatedInputTokens, maxOutputTokens, routingProfile)
selectModel(tier, confidence, method, reasoning, tierConfigs, modelPricing, estimatedInputTokens, maxOutputTokens, routingProfile) ==
    LET model == tierConfigs[tier].primary
        costEstimate == costOf(modelPricing, model, estimatedInputTokens,
                               maxOutputTokens)
        baselineCost == costOf(modelPricing, BASELINE_MODEL,
                               estimatedInputTokens, maxOutputTokens)
    IN  [model |-> model, tier |-> tier, confidence |-> confidence,
         method |-> method, reasoning |-> reasoning,
         costEstimate |-> costEstimate, baselineCost |-> baselineCost,
         savings |-> savingsOf(routingProfile, baselineCost, costEstimate)]

\* A context window: known or undefined.
Window(tokens) == [known |-> TRUE, tokens |-> tokens]

UnknownWindow == [known |-> FALSE, tokens |-> 0]

\* The filter test with > in place of >=.
fitsContextStrictly(contextWindow, estimatedTotalTokens) ==
    \/ ~contextWindow.known
    \/ 10 * contextWindow.tokens > 11 * estimatedTotalTokens

\* The filter test of getFallbackChainFiltered:
\* contextWindow === undefined || contextWindow >= estimatedTotalTokens * 1.1
fitsContext(contextWindow, estimatedTotalTokens) ==
    \/ ~contextWindow.known
    \/ 10 * contextWindow.tokens >= 11 * estimatedTotalTokens

\* Array.prototype.filter
RECURSIVE filterChain(_, _, _)
filterChain(chain, estimatedTotalTokens, getContextWindow) ==
    IF chain = <<>> THEN <<>>
    ELSE (IF fitsContext(getContextWindow[Head(chain)], estimatedTotalTokens)
          THEN <<Head(chain)>> ELSE <<>>)
         \o filterChain(Tail(chain), estimatedTotalTokens, getContextWindow)

\* getFallbackChainFiltered(tier, tierConfigs, estimatedTotalTokens,
\* getContextWindow)
getFallbackChainFiltered(tier, tierConfigs, estimatedTotalTokens, getContextWindow) ==
    LET fullChain == getFallbackChain(tier, tierConfigs)
        filtered == filterChain(fullChain, estimatedTotalTokens,
                                getContextWindow)
    IN  IF Len(filtered) = 0 THEN fullChain ELSE filtered

---------------------------------------------------------------------------
(* The router entry point, src/src/router/index.ts lines 28-126 *)

\* overrides.maxTokensForceComplex of LIONHEART_ROUTING_CONFIG
maxTokensForceComplex == 8000

\* The routing profiles of RouterOptions; "undefined" is the absent one.
RoutingProfiles == {"free", "eco", "auto", "premium", "undefined"}

\* An ecoTiers set of a configuration: every primary differs from the
\* primaries of the other sets.
ecoTiers ==
    [t \in Tiers |->
        [primary |-> "deepseek/deepseek-chat",
         fallback |-> <<"local/exo-llama-3b">>]]

\* A premiumTiers set of a configuration.
premiumTiers ==
    [t \in Tiers |->
        [primary |-> "anthropic/claude-opus-4",
         fallback |-> <<"claude-cli/opus">>]]

\* An absent optional field.
Absent == [present |-> FALSE]

Present(value) == [present |-> TRUE, value |-> value]

\* The overrides of the configurations.
Overrides ==
    [maxTokensForceComplex : {maxTokensForceComplex},
     ambiguousDefaultTier : {"SIMPLE", "MEDIUM"},
     structuredOutputMinTier : Tiers,
     agenticMode : {Absent, Present(TRUE)}]

\* The configurations: the default tiers, the optional tier sets, some
\* overrides.
Configs ==
    [tiers : {tiers},
     ecoTiers : {Absent, Present(ecoTiers)},
     premiumTiers : {Absent, Present(premiumTiers)},
     agenticTiers : {Absent, Present(agenticTiers)},
     overrides : Overrides]

\* The results of classifyByRules: a tier or null, a confidence in
\* percent, an optional agentic score in percent.
RuleResults ==
    [tier : Tiers \cup {"null"},
     confidence : {80},
     agenticScore : {Absent, Present(49), Present(50)}]

\* String.prototype.toLowerCase on the words of the prompts.
toLowerCase(word) ==
    CASE word = "JSON" -> "json"
      [] word = "Schema" -> "schema"
      [] word = "Return" -> "return"
      [] word = "You" -> "you"
      [] OTHER -> word

\* The system prompts: absent, empty, or some words separated by spaces.
SystemPrompts ==
    {Absent, Present(<<>>), Present(<<"You", "are", "helpful">>),
     Present(<<"Return", "JSON">>), Present(<<"Schema">>),
     Present(<<"as", "structured", "data">>)}

\* The lengths of the user prompts.
PromptLens == {2, 31999, 32000}

\* The length of a text of words separated by single spaces.
RECURSIVE textLength(_)
textLength(words) ==
    IF words = <<>> THEN 0
    ELSE Len(Head(words))
         + (IF Len(words) > 1 THEN 1 + textLength(Tail(words)) ELSE 0)

\* The estimate without the space between the system prompt and the prompt.
estimateTokensWithoutSeparator(systemPrompt, promptLength) ==
    LET length == (IF systemPrompt.present
                   THEN textLength(systemPrompt.value) ELSE 0)
                  + promptLength
    IN  (length + 3) \div 4

\* Math.ceil(fullText.length / 4), fullText = `${systemPrompt ?? ""} ${prompt}`
estimateTokens(systemPrompt, promptLength) ==
    LET length == (IF systemPrompt.present
                   THEN textLength(systemPrompt.value) ELSE 0)
                  + 1 + promptLength
    IN  (length + 3) \div 4

\* The pattern test without the i flag.
hasStructuredOutputCaseSensitive(systemPrompt) ==
    /\ systemPrompt.present
    /\ systemPrompt.value # <<>>
    /\ \E i \in 1..Len(systemPrompt.value) :
          systemPrompt.value[i] \in {"json", "structured", "schema"}

\* systemPrompt ? /json|structured|schema/i.test(systemPrompt) : false
hasStructuredOutput(systemPrompt) ==
    /\ systemPrompt.present
    /\ systemPrompt.value # <<>>
    /\ \E i \in 1..Len(systemPrompt.value) :
          toLowerCase(systemPrompt.value[i])
              \in {"json", "structured", "schema"}

\* The tier set selection that takes no account of the profile.
selectTierConfigsIgnoringProfile(routingProfile, config, ruleResult) ==
    [tierConfigs |-> config.tiers, profileSuffix |-> <<>>]

\* The tier set and the reasoning suffix route takes.
selectTierConfigs(routingProfile, config, ruleResult) ==
    IF routingProfile = "eco" /\ config.ecoTiers.present
    THEN [tierConfigs |-> config.ecoTiers.value, profileSuffix |-> <<"eco">>]
    ELSE IF routingProfile = "premium" /\ config.premiumTiers.present
    THEN [tierConfigs |-> config.premiumTiers.value,
          profileSuffix |-> <<"premium">>]
    ELSE LET agenticScore == IF ruleResult.agenticScore.present
                             THEN ruleResult.agenticScore.value ELSE 0
             isAutoAgentic == agenticScore >= 50
             isExplicitAgentic == IF config.overrides.agenticMode.present
                                  THEN config.overrides.agenticMode.value
                                  ELSE FALSE
             useAgenticTiers == /\ (isAutoAgentic \/ isExplicitAgentic)
                                /\ config.agenticTiers.present
         IN  IF useAgenticTiers
             THEN [tierConfigs |-> config.agenticTiers.value,
                   profileSuffix |-> <<"agentic">>]
             ELSE [tierConfigs |-> config.tiers, profileSuffix |-> <<>>]

\* tierRank
tierRank == [SIMPLE |-> 0, MEDIUM |-> 1, COMPLEX |-> 2, REASONING |-> 3]

\* The large-context test with >= in place of >.
exceedsMaxTokensOrEqual(estimatedTokens, overrides) ==
    estimatedTokens >= overrides.maxTokensForceComplex

\* estimatedTokens > config.overrides.maxTokensForceComplex
exceedsMaxTokens(estimatedTokens, overrides) ==
    estimatedTokens > overrides.maxTokensForceComplex

\* route(prompt, systemPrompt, maxOutputTokens, options); the prompt by
\* its length, the result of classifyByRules given.
route(promptLength, systemPrompt, maxOutputTokens, config, modelPricing, routingProfile, ruleResult) ==
    LET estimatedTokens == estimateTokens(systemPrompt, promptLength)
        selected == selectTierConfigs(routingProfile, config, ruleResult)
        tierConfigs == selected.tierConfigs
        profileSuffix == selected.profileSuffix
        scored == ruleResult.tier # "null"
        tier0 == IF scored THEN ruleResult.tier
                 ELSE config.overrides.ambiguousDefaultTier
        confidence == IF scored THEN ruleResult.confidence ELSE 50
        reasoning0 == <<"score">>
                      \o (IF scored THEN <<>> ELSE <<"ambiguous", tier0>>)
        minTier == config.overrides.structuredOutputMinTier
        upgraded == /\ hasStructuredOutput(systemPrompt)
                    /\ tierRank[tier0] < tierRank[minTier]
        tier == IF upgraded THEN minTier ELSE tier0
        reasoning == reasoning0
                     \o (IF upgraded THEN <<"upgraded", minTier>> ELSE <<>>)
                     \o profileSuffix
    IN  IF exceedsMaxTokens(estimatedTokens, config.overrides)
        THEN selectModel("COMPLEX", 95, "rules",
                         <<"exceeds">> \o profileSuffix, tierConfigs,
                         modelPricing, estimatedTokens, maxOutputTokens,
                         routingProfile)
        ELSE selectModel(tier, confidence, "rules", reasoning, tierConfigs,
                         modelPricing, estimatedTokens, maxOutputTokens,
                         routingProfile)

\* The tier sets handed to the selector.
TierConfigSets == {tiers, agenticTiers, ecoTiers, premiumTiers}

\* The token counts of the selector's calls.
TokenCounts == {0, 4096}

\* The estimated totals of the context filter: 7450 x 1.1 is 8195, the
\* others fall between two windows.
EstimatedTotals == {7450, 7451, 181819}

\* What getContextWindow may answer.
ContextWindows ==
    {UnknownWindow, Window(8192), Window(8195), Window(200000)}

\* The models of a chain.
ChainModels(chain) == {chain[i] : i \in DOMAIN chain}

\* The getContextWindow functions over the models of a chain.
ContextWindowOracles(chain) == [ChainModels(chain) -> ContextWindows]

\* The arguments of route.
RouteArgs ==
    [promptLength : PromptLens, systemPrompt : SystemPrompts,
     maxOutputTokens : {4096}, config : Configs,
     modelPricing : PricingTables, routingProfile : RoutingProfiles,
     ruleResult : RuleResults]

\* The arguments of selectModel.
SelectModelArgs ==
    [tier : Tiers, confidence : {80}, tierConfigs : TierConfigSets,
     modelPricing : PricingTables, estimatedInputTokens : TokenCounts,
     maxOutputTokens : TokenCounts, routingProfile : RoutingProfiles]

\* The arguments of calculateModelCost.
CalculateModelCostArgs ==
    [model : {"local/exo-llama-8b", "deepseek/deepseek-reasoner",
              "anthropic/claude-opus-4", BASELINE_MODEL, "unknown/model"},
     modelPricing : PricingTables, estimatedInputTokens : TokenCounts,
     maxOutputTokens : TokenCounts, routingProfile : RoutingProfiles]

RouterInit ==
    /\ now = 0
    /\ inflight = EmptyMap
    /\ completed = EmptyMap
    /\ promises = <<>>
    /\ reqs = [r \in 1..MaxRequests |-> NoRequest]
    /\ \/ \E arg \in RouteArgs :
             call = [fn |-> "route", arg |-> arg,
                     ret |-> <<>>, done |-> FALSE,
                     diagnostics |-> <<>>]
       \/ \E arg \in SelectModelArgs :
             call = [fn |-> "selectModel", arg |-> arg,
                     ret |-> <<>>, done |-> FALSE,
                     diagnostics |-> <<>>]
       \/ \E arg \in CalculateModelCostArgs :
             call = [fn |-> "calculateModelCost", arg |-> arg,
                     ret |-> <<>>, done |-> FALSE,
                     diagnostics |-> <<>>]
       \/ \E tier \in Tiers : \E tierConfigs \in {tiers, agenticTiers} :
          \E estimatedTotalTokens \in EstimatedTotals :
          \E getContextWindow \in
                ContextWindowOracles(getFallbackChain(tier, tierConfigs)) :
             call = [fn |-> "getFallbackChainFiltered",
                     arg |-> [tier |-> tier, tierConfigs |-> tierConfigs,
                              estimatedTotalTokens |-> estimatedTotalTokens,
                              getContextWindow |-> getContextWindow],
                     ret |-> <<>>, done |-> FALSE,
                     diagnostics |-> <<>>]

\* A call of route.
Route ==
    /\ call.fn = "route"
    /\ ~call.done
    /\ call' = [call EXCEPT
                  !.ret = route(call.arg.promptLength, call.arg.systemPrompt,
                                call.arg.maxOutputTokens, call.arg.config,
                                call.arg.modelPricing,
                                call.arg.routingProfile, call.arg.ruleResult),
                  !.diagnostics =
                      @ \o missingPricingDiagnostics(
                               call.arg.modelPricing,
                               route(call.arg.promptLength,
                                     call.arg.systemPrompt,
                                     call.arg.maxOutputTokens,
                                     call.arg.config, call.arg.modelPricing,
                                     call.arg.routingProfile,
                                     call.arg.ruleResult).model),
                  !.done = TRUE]
    /\ UNCHANGED <<now, inflight, completed, promises, reqs>>

\* A call of selectModel.
SelectModel ==
    /\ call.fn = "selectModel"
    /\ ~call.done
    /\ call' = [call EXCEPT
                  !.ret = selectModel(call.arg.tier, call.arg.confidence,
                                      "rules", <<"score">>,
                                      call.arg.tierConfigs,
                                      call.arg.modelPricing,
                                      call.arg.estimatedInputTokens,
                                      call.arg.maxOutputTokens,
                                      call.arg.routingProfile),
                  !.diagnostics =
                      @ \o missingPricingDiagnostics(
                               call.arg.modelPricing,
                               call.arg.tierConfigs[call.arg.tier].primary),
                  !.done = TRUE]
    /\ UNCHANGED <<now, inflight, completed, promises, reqs>>

\* A call of calculateModelCost.
CalculateModelCost ==
    /\ call.fn = "calculateModelCost"
    /\ ~call.done
    /\ call' = [call EXCEPT
                  !.ret = calculateModelCost(call.arg.model,
                                             call.arg.modelPricing,
                                             call.arg.estimatedInputTokens,
                                             call.arg.maxOutputTokens,
                                             call.arg.routingProfile),
                  !.diagnostics =
                      @ \o missingPricingDiagnostics(
                               call.arg.modelPricing,
                               call.arg.tierConfigs[call.arg.tier].primary),
                  !.done = TRUE]
    /\ UNCHANGED <<now, inflight, completed, promises, reqs>>

\* A call of getFallbackChainFiltered.
GetFallbackChainFiltered ==
    /\ call.fn = "getFallbackChainFiltered"
    /\ ~call.done
    /\ call' = [call EXCEPT
                  !.ret = getFallbackChainFiltered(
                              call.arg.tier, call.arg.tierConfigs,
                              call.arg.estimatedTotalTokens,
                              call.arg.getContextWindow),
                  !.done = TRUE]
    /\ UNCHANGED <<now, inflight, completed, promises, reqs>>

RouterNext ==
    \/ Route
    \/ SelectModel
    \/ CalculateModelCost
    \/ GetFallbackChainFiltered

RouterSpec == RouterInit /\ [][RouterNext]_vars

---------------------------------------------------------------------------
(* Claims about the router, checked under RouterSpec *)

\* A call of fn has returned.
Returned(fn) == call.fn = fn /\ call.done

\* The tier set route hands to selectModel in the returned call.
RoutedTierConfigs ==
    selectTierConfigs(call.arg.routingProfile, call.arg.config,
                      call.arg.ruleResult).tierConfigs

\* The estimated input tokens of the returned call of route.
RoutedTokens == estimateTokens(call.arg.systemPrompt, call.arg.promptLength)

\* The chain of the tier of the returned decision, filtered for the
\* estimated input and output tokens.
RoutedFilteredChain(getContextWindow) ==
    getFallbackChainFiltered(call.ret.tier, RoutedTierConfigs,
                             RoutedTokens + call.arg.maxOutputTokens,
                             getContextWindow)

\* C15: the model of a RoutingDecision is the head of the tier's fallback
\* chain after the context-window filter, whatever the context windows of
\* the chain's models are.
C15_DecisionIsHeadOfFilteredChain ==
    Returned("route") =>
        \A getContextWindow \in ContextWindowOracles(
                getFallbackChain(call.ret.tier, RoutedTierConfigs)) :
            call.ret.model = Head(RoutedFilteredChain(getContextWindow))

\* C15 as the code has it: the model of a RoutingDecision is the primary of
\* the tier in the tier set taken, and the cost estimate is the cost of that
\* primary, whether or not the primary's context window fits.
C15_DecisionIsPrimary ==
    /\ Returned("route") =>
          /\ call.ret.model = RoutedTierConfigs[call.ret.tier].primary
          /\ call.ret.costEstimate =
                costOf(call.arg.modelPricing,
                       RoutedTierConfigs[call.ret.tier].primary,
                       RoutedTokens, call.arg.maxOutputTokens)
    /\ Returned("selectModel") =>
          /\ call.ret.model = call.arg.tierConfigs[call.arg.tier].primary
          /\ call.ret.costEstimate =
                costOf(call.arg.modelPricing,
                       call.arg.tierConfigs[call.arg.tier].primary,
                       call.arg.estimatedInputTokens,
                       call.arg.maxOutputTokens)

\* route has returned the primary although, for some context windows, the
\* primary does not fit and the head of the filtered chain is another model.
C15_Witness ==
    /\ Returned("route")
    /\ \E getContextWindow \in ContextWindowOracles(
              getFallbackChain(call.ret.tier, RoutedTierConfigs)) :
          /\ ~fitsContext(
                getContextWindow[RoutedTierConfigs[call.ret.tier].primary],
                RoutedTokens + call.arg.maxOutputTokens)
          /\ Head(RoutedFilteredChain(getContextWindow)) # call.ret.model
          /\ call.ret.model = RoutedTierConfigs[call.ret.tier].primary

\* The positions of the full chain whose model qualifies: unknown context
\* window, or a window of at least estimatedTotalTokens x 1.1.
Qualifying(fullChain, estimatedTotalTokens, getContextWindow) ==
    {i \in DOMAIN fullChain :
        \/ ~getContextWindow[fullChain[i]].known
        \/ 10 * getContextWindow[fullChain[i]].tokens
              >= 11 * estimatedTotalTokens}

\* result is fullChain restricted to the positions in kept, in chain order.
IsRestriction(result, fullChain, kept) ==
    /\ Len(result) = Cardinality(kept)
    /\ \A j \in DOMAIN result :
          \E i \in kept :
             /\ result[j] = fullChain[i]
             /\ Cardinality({k \in kept : k < i}) = j - 1

StructuredSystemPrompts ==
    {Present(<<"Return", "JSON">>), Present(<<"Schema">>),
     Present(<<"as", "structured", "data">>)}

\* C17: for every call of route whose system prompt matches the
\* structured-output pattern, the tier of the decision is at least
\* overrides.structuredOutputMinTier, for every scorer result, token
\* estimate and override setting.
C17_StructuredOutputMinTier ==
    (Returned("route") /\ call.arg.systemPrompt \in StructuredSystemPrompts)
        => tierRank[call.ret.tier]
              >= tierRank[call.arg.config.overrides.structuredOutputMinTier]

\* C17 as the code has it: the tier is at least structuredOutputMinTier
\* unless the estimate exceeds maxTokensForceComplex; then the tier is
\* COMPLEX, which is below the minimum exactly when the minimum is REASONING.
C17_StructuredOutputMinTierUnlessForced ==
    (Returned("route") /\ call.arg.systemPrompt \in StructuredSystemPrompts)
        => IF RoutedTokens > call.arg.config.overrides.maxTokensForceComplex
           THEN call.ret.tier = "COMPLEX"
           ELSE tierRank[call.ret.tier]
                   >= tierRank[
                        call.arg.config.overrides.structuredOutputMinTier]

\* A structured-output request within the token limit, scored below the
\* minimum, has been upgraded to the minimum.
C17_Witness ==
    /\ Returned("route")
    /\ call.arg.systemPrompt = Present(<<"Return", "JSON">>)
    /\ RoutedTokens <= call.arg.config.overrides.maxTokensForceComplex
    /\ call.arg.ruleResult.tier = "SIMPLE"
    /\ call.arg.config.overrides.structuredOutputMinTier = "REASONING"
    /\ call.ret.tier = "REASONING"

\* C18: if estimatedTokens > overrides.maxTokensForceComplex, route returns
\* tier COMPLEX with confidence 0.95 whatever the scorer's tier, the
\* ambiguous default tier and the profile; otherwise a non-null scorer tier
\* is taken with the scorer's confidence and a null tier yields
\* ambiguousDefaultTier with confidence 0.5. The tier taken is the returned
\* tier unless the system prompt asks for structured output and the tier
\* taken is below structuredOutputMinTier; then the minimum is returned.
C18_ClassifierPrecedence ==
    Returned("route") =>
        LET overrides == call.arg.config.overrides
            scorer == call.arg.ruleResult
            taken == IF scorer.tier # "null" THEN scorer.tier
                     ELSE overrides.ambiguousDefaultTier
            raised == /\ call.arg.systemPrompt \in StructuredSystemPrompts
                      /\ tierRank[taken]
                            < tierRank[overrides.structuredOutputMinTier]
        IN  IF RoutedTokens > overrides.maxTokensForceComplex
            THEN call.ret.tier = "COMPLEX" /\ call.ret.confidence = 95
            ELSE /\ call.ret.confidence =
                       (IF scorer.tier # "null" THEN scorer.confidence
                        ELSE 50)
                 /\ call.ret.tier =
                       (IF raised THEN overrides.structuredOutputMinTier
                        ELSE taken)

\* A request over the token limit whose scorer tier is null, with the eco
\* profile, has been routed to COMPLEX with confidence 0.95.
C18_Witness ==
    /\ Returned("route")
    /\ RoutedTokens > call.arg.config.overrides.maxTokensForceComplex
    /\ call.arg.ruleResult.tier = "null"
    /\ call.arg.config.overrides.ambiguousDefaultTier = "SIMPLE"
    /\ call.arg.routingProfile = "eco"
    /\ call.ret.tier = "COMPLEX"
    /\ call.ret.confidence = 95

\* The profile named at the end of a decision's reasoning, "" when none.
ProfileSuffix(reasoning) ==
    IF reasoning[Len(reasoning)] \in {"eco", "premium", "agentic"}
    THEN reasoning[Len(reasoning)] ELSE ""

\* C19: route takes the tier configuration from ecoTiers when the profile is
\* eco and from premiumTiers when it is premium (the set being there), else
\* from agenticTiers when the request is agentic (agentic score of 0.5 or
\* more, or overrides.agenticMode) and an agenticTiers set exists, and from
\* the default tiers otherwise: the decision's model is the primary of the
\* decision's tier in that set and the reasoning names the set.
C19_TierSetByProfile ==
    Returned("route") =>
        LET config == call.arg.config
            agentic ==
                \/ /\ call.arg.ruleResult.agenticScore # Absent
                   /\ call.arg.ruleResult.agenticScore.value >= 50
                \/ config.overrides.agenticMode = Present(TRUE)
        IN  IF call.arg.routingProfile = "eco" /\ config.ecoTiers # Absent
            THEN /\ call.ret.model = ecoTiers[call.ret.tier].primary
                 /\ ProfileSuffix(call.ret.reasoning) = "eco"
            ELSE IF /\ call.arg.routingProfile = "premium"
                    /\ config.premiumTiers # Absent
            THEN /\ call.ret.model = premiumTiers[call.ret.tier].primary
                 /\ ProfileSuffix(call.ret.reasoning) = "premium"
            ELSE IF agentic /\ config.agenticTiers # Absent
            THEN /\ call.ret.model = agenticTiers[call.ret.tier].primary
                 /\ ProfileSuffix(call.ret.reasoning) = "agentic"
            ELSE /\ call.ret.model = tiers[call.ret.tier].primary
                 /\ ProfileSuffix(call.ret.reasoning) = ""

\* A request of the auto profile whose agentic score is exactly 0.5, with no
\* agenticMode, has been routed with the agentic tier set.
C19_Witness ==
    /\ Returned("route")
    /\ call.arg.routingProfile = "auto"
    /\ call.arg.ruleResult.agenticScore = Present(50)
    /\ call.arg.config.overrides.agenticMode = Absent
    /\ call.ret.tier = "SIMPLE"
    /\ call.ret.model = agenticTiers["SIMPLE"].primary
    /\ call.ret.model # tiers["SIMPLE"].primary

\* C20: every result produced with routingProfile = premium has savings 0,
\* for every tier, token count and pricing table, in route, in selectModel
\* and in calculateModelCost.
C20_PremiumSavingsZero ==
    (/\ call.done
     /\ call.fn \in {"route", "selectModel", "calculateModelCost"}
     /\ call.arg.routingProfile = "premium")
        => call.ret.savings.num = 0

\* calculateModelCost has returned savings 0 for the premium profile where
\* the baseline cost is positive and above the cost estimate.
C20_Witness ==
    /\ Returned("calculateModelCost")
    /\ call.arg.routingProfile = "premium"
    /\ call.ret.baselineCost > 0
    /\ call.ret.costEstimate < call.ret.baselineCost
    /\ call.ret.savings.num = 0

---------------------------------------------------------------------------
(* Claims about LIONHEART_ROUTING_CONFIG and LIONHEART_MODEL_PRICING *)

\* The tier sets LIONHEART_ROUTING_CONFIG defines.
LionheartTierSets == {tiers, agenticTiers}

\* C21: for every fallback chain of the routing configuration and every
\* position i at which the first successful attempt can occur, the cost
\* estimate of chain model i is at most the cost estimate of every later
\* chain entry, for the same token counts, when both have pricing.
C21_FallbackOrderMonotone ==
    (/\ Returned("calculateModelCost")
     /\ call.arg.modelPricing = LIONHEART_MODEL_PRICING)
        => \A tierConfigs \in LionheartTierSets : \A tier \in Tiers :
              LET chain == <<tierConfigs[tier].primary>>
                           \o tierConfigs[tier].fallback
              IN  \A i \in 1..MAX_FALLBACK_ATTEMPTS : \A j \in DOMAIN chain :
                     (/\ i < j
                      /\ chain[i] = call.arg.model
                      /\ chain[j] \in DOMAIN LIONHEART_MODEL_PRICING
                      /\ call.arg.model \in DOMAIN LIONHEART_MODEL_PRICING)
                        => call.ret.costEstimate
                              <= calculateModelCost(
                                    chain[j], call.arg.modelPricing,
                                    call.arg.estimatedInputTokens,
                                    call.arg.maxOutputTokens,
                                    call.arg.routingProfile).costEstimate

\* No model occurs twice in the sequence.
NoDuplicates(models) ==
    \A i, j \in DOMAIN models : models[i] = models[j] => i = j

\* C22: for every tier of tiers and agenticTiers the fallback list is
\* non-empty, has no model twice and does not contain the primary, so the
\* chain [primary, ...fallback] of getFallbackChain has no duplicates: a
\* chain returned for such a tier has none, and where no model is filtered
\* out it has one entry more than the fallback list.
C22_ChainsWellFormed ==
    (/\ Returned("getFallbackChainFiltered")
     /\ call.arg.tierConfigs \in LionheartTierSets)
        => LET tierConfig == call.arg.tierConfigs[call.arg.tier]
           IN  /\ tierConfig.fallback # <<>>
               /\ NoDuplicates(tierConfig.fallback)
               /\ \A i \in DOMAIN tierConfig.fallback :
                     tierConfig.fallback[i] # tierConfig.primary
               /\ NoDuplicates(call.ret)
               /\ (\A m \in DOMAIN call.arg.getContextWindow :
                      ~call.arg.getContextWindow[m].known)
                    => /\ Len(call.ret) = 1 + Len(tierConfig.fallback)
                       /\ call.ret[1] = tierConfig.primary

\* The whole chain of agenticTiers.REASONING has been returned: four
\* different models.
C22_Witness ==
    /\ Returned("getFallbackChainFiltered")
    /\ call.arg.tierConfigs = agenticTiers
    /\ call.arg.tier = "REASONING"
    /\ \A m \in DOMAIN call.arg.getContextWindow :
          ~call.arg.getContextWindow[m].known
    /\ Len(call.ret) = 4
    /\ Cardinality({call.ret[i] : i \in DOMAIN call.ret}) = 4

\* The model a returned call of selectModel or calculateModelCost priced.
PricedModel ==
    IF call.fn = "selectModel"
    THEN call.arg.tierConfigs[call.arg.tier].primary
    ELSE call.arg.model

\* C23: every model id of a tier configuration has an entry in the pricing
\* table; and when selectModel or calculateModelCost is asked for a model
\* without a pricing entry, the cost is computed with prices 0 and a
\* diagnostic is emitted.
C23_MissingPricingDiagnosed ==
    (call.done /\ call.fn \in {"selectModel", "calculateModelCost"})
        => /\ \A tierConfigs \in LionheartTierSets : \A tier \in Tiers :
                 /\ tierConfigs[tier].primary
                       \in DOMAIN LIONHEART_MODEL_PRICING
                 /\ \A i \in DOMAIN tierConfigs[tier].fallback :
                       tierConfigs[tier].fallback[i]
                          \in DOMAIN LIONHEART_MODEL_PRICING
           /\ PricedModel \notin DOMAIN call.arg.modelPricing
                 => /\ call.ret.costEstimate = 0
                    /\ call.diagnostics # <<>>

---------------------------------------------------------------------------
(* The compression pipeline, src/src/compression/index.ts, codebook.ts,
   layers/dictionary.ts and layers/paths.ts.  A content is a sequence of
   tokens separated by single spaces; an empty or null content is <<>>. *)

\* A piece of text without a space.
Text(s) == [t |-> "text", v |-> <<s>>, entries |-> <<>>]

\* A filesystem path "/c1/c2/.../cn".
Path(components) == [t |-> "path", v |-> components, entries |-> <<>>]

\* A path prefix "/c1/.../ci/".
Prefix(components) == [t |-> "prefix", v |-> components, entries |-> <<>>]

\* A shortened path "code/c1/.../cn".
ShortPath(code, rest) ==
    [t |-> "short", v |-> <<code>> \o rest, entries |-> <<>>]

\* The end of a message's content in the combined content: "\n", which
\* stands where a space stands between two tokens (length -1 with the two
\* spaces counted around it).
Newline == [t |-> "nl", v |-> <<>>, entries |-> <<>>]

\* The mark of a phrase cut to its first 37 characters and "...".
Sliced37 == [t |-> "slice(0, 37)...", v |-> <<>>, entries |-> <<>>]

\* An entry "code=phrase" of a header line.
Entry(code, phrase) == [code |-> code, phrase |-> phrase]

\* A header line "[kind: entries]".
HeaderLine(kind, entries) ==
    [t |-> "header", v |-> <<kind>>, entries |-> entries]

\* Sum of 1 + Len(c) over the strings of a sequence.
RECURSIVE slashedLength(_)
slashedLength(components) ==
    IF components = <<>> THEN 0
    ELSE 1 + Len(Head(components)) + slashedLength(Tail(components))

\* String.length of a token.
tokenLength(token) ==
    CASE token.t = "text" -> Len(token.v[1])
      [] token.t = "path" -> slashedLength(token.v)
      [] token.t = "prefix" -> slashedLength(token.v) + 1
      [] token.t = "short" -> Len(token.v[1]) + slashedLength(Tail(token.v))
      [] token.t = "nl" -> -1
      [] OTHER -> 1

\* String.length of tokens joined by one character each.
RECURSIVE contentLength(_)
contentLength(tokens) ==
    IF tokens = <<>> THEN 0
    ELSE tokenLength(Head(tokens))
         + (IF Len(tokens) > 1 THEN 1 + contentLength(Tail(tokens)) ELSE 0)

\* Some entries of STATIC_CODEBOOK.
STATIC_CODEBOOK ==
    [code \in {"$OC04", "$D01", "$D02"} |->
        CASE code = "$OC04" -> "<name>"
          [] code = "$D01" -> "description:"
          [] OTHER -> "\"description\":"]

\* The phrases of the codebook, longest first: the order of encodeContent.
staticPhrases == <<"\"description\":", "description:", "<name>">>

\* getInverseCodebook()[phrase]
inverseCodebook(phrase) ==
    CHOOSE code \in DOMAIN STATIC_CODEBOOK : STATIC_CODEBOOK[code] = phrase

\* Appends the elements of more that are not in seq yet, in order.
RECURSIVE addAll(_, _)
addAll(seq, more) ==
    IF more = <<>> THEN seq
    ELSE addAll(IF \E i \in DOMAIN seq : seq[i] = Head(more)
                THEN seq ELSE Append(seq, Head(more)),
                Tail(more))

\* encodeContent: the encoded content and the codes, in the order of the
\* phrases, from phrase number k on.
RECURSIVE encodeContent(_, _, _)
encodeContent(content, codes, k) ==
    IF k > Len(staticPhrases) THEN [encoded |-> content, codes |-> codes]
    ELSE LET phrase == staticPhrases[k]
             code == inverseCodebook(phrase)
             matches == \E i \in DOMAIN content : content[i] = Text(phrase)
         IN  IF matches
             THEN encodeContent(
                      [i \in DOMAIN content |->
                          IF content[i] = Text(phrase) THEN Text(code)
                          ELSE content[i]],
                      Append(codes, code), k + 1)
             ELSE encodeContent(content, codes, k + 1)

\* encodeMessages: the messages and usedCodes in insertion order, from
\* message number i on.
RECURSIVE encodeMessages(_, _, _)
encodeMessages(messages, allUsedCodes, i) ==
    IF i > Len(messages)
    THEN [messages |-> messages, usedCodes |-> allUsedCodes]
    ELSE IF messages[i].content = <<>>
    THEN encodeMessages(messages, allUsedCodes, i + 1)
    ELSE LET enc == encodeContent(messages[i].content, <<>>, 1)
         IN  encodeMessages(
                 [messages EXCEPT ![i].content = enc.encoded],
                 addAll(allUsedCodes, enc.codes), i + 1)

\* Array.prototype.sort by descending key, stable: the element x put into
\* a sorted sequence of [item, key] records.
RECURSIVE insertDescending(_, _)
insertDescending(sorted, x) ==
    IF sorted = <<>> THEN <<x>>
    ELSE IF Head(sorted).key >= x.key
    THEN <<Head(sorted)>> \o insertDescending(Tail(sorted), x)
    ELSE <<x>> \o sorted

RECURSIVE sortDescending(_, _)
sortDescending(keyed, sorted) ==
    IF keyed = <<>> THEN sorted
    ELSE sortDescending(Tail(keyed), insertDescending(sorted, Head(keyed)))

\* extractPaths: the matches of PATH_REGEX (three components or more) in
\* the contents, in order.
RECURSIVE extractPaths(_)
extractPaths(messages) ==
    IF messages = <<>> THEN <<>>
    ELSE SelectSeq(Head(messages).content,
                   LAMBDA token : token.t = "path" /\ Len(token.v) >= 3)
         \o extractPaths(Tail(messages))

\* The prefixes of the paths with 2 components or more and fewer than the
\* path has, in the order findFrequentPrefixes meets them.
RECURSIVE prefixesOf(_)
prefixesOf(paths) ==
    IF paths = <<>> THEN <<>>
    ELSE [i \in 1..(Len(Head(paths).v) - 2) |->
             SubSeq(Head(paths).v, 1, i + 1)]
         \o prefixesOf(Tail(paths))

\* findFrequentPrefixes: the prefixes met 3 times or more, longest first,
\* at most 5.
findFrequentPrefixes(paths) ==
    LET met == prefixesOf(paths)
        count(prefix) == Cardinality({k \in DOMAIN met : met[k] = prefix})
        frequent == SelectSeq(addAll(<<>>, met),
                              LAMBDA prefix : count(prefix) >= 3)
        keyed == [i \in DOMAIN frequent |->
                     [item |-> frequent[i],
                      key |-> slashedLength(frequent[i]) + 1]]
        sorted == sortDescending(keyed, <<>>)
    IN  [i \in 1..(IF Len(sorted) < 5 THEN Len(sorted) ELSE 5) |->
            sorted[i].item]

\* The codes of the path map.
pathCodes == <<"$P1", "$P2", "$P3", "$P4", "$P5">>

\* content.split(prefix).join(code + "/") for the entries of the path map
\* from number k on; a prefix is met at the start of a path.
RECURSIVE replacePrefixes(_, _, _)
replacePrefixes(content, pathMap, k) ==
    IF k > Len(pathMap) THEN content
    ELSE LET prefix == pathMap[k].phrase[1].v
             starts(token) ==
                 /\ token.t = "path"
                 /\ Len(token.v) > Len(prefix)
                 /\ SubSeq(token.v, 1, Len(prefix)) = prefix
         IN  replacePrefixes(
                 [i \in DOMAIN content |->
                     IF starts(content[i])
                     THEN ShortPath(pathMap[k].code,
                                    SubSeq(content[i].v, Len(prefix) + 1,
                                           Len(content[i].v)))
                     ELSE content[i]],
                 pathMap, k + 1)

\* shortenPaths: the messages and the path map as entries in order.
shortenPaths(messages) ==
    LET allPaths == extractPaths(messages)
        prefixes == findFrequentPrefixes(allPaths)
        pathMap == [i \in DOMAIN prefixes |->
                       Entry(pathCodes[i], <<Prefix(prefixes[i])>>)]
    IN  IF Len(allPaths) < 5 \/ Len(prefixes) = 0
        THEN [messages |-> messages, pathMap |-> <<>>]
        ELSE [messages |->
                 [i \in DOMAIN messages |->
                     [messages[i] EXCEPT
                        !.content = replacePrefixes(@, pathMap, 1)]],
              pathMap |-> pathMap]

\* The constants of the dynamic codebook.
MIN_PHRASE_LENGTH == 20

MAX_PHRASE_LENGTH == 200

MIN_FREQUENCY == 3

MAX_ENTRIES == 100

\* The texts of the model that end with one of . ! ?
SentenceEnds ==
    {"Hi.", "Please review the attached file.",
     "Please review the attached file and report every problem found."}

endsSentence(token) == token.t = "text" /\ token.v[1] \in SentenceEnds

\* String.prototype.trim on the newlines at the end.
RECURSIVE trimEnd(_)
trimEnd(tokens) ==
    IF tokens # <<>> /\ tokens[Len(tokens)] = Newline
    THEN trimEnd(SubSeq(tokens, 1, Len(tokens) - 1))
    ELSE tokens

\* allContent.split(/(?<=[.!?\n])\s+/), each segment trimmed: a segment
\* ends after a token that ends a sentence.
RECURSIVE splitSegments(_, _, _)
splitSegments(tokens, current, segments) ==
    IF tokens = <<>>
    THEN IF trimEnd(current) = <<>> THEN segments
         ELSE Append(segments, trimEnd(current))
    ELSE IF Head(tokens) = Newline /\ current = <<>>
    THEN splitSegments(Tail(tokens), current, segments)
    ELSE IF endsSentence(Head(tokens))
    THEN splitSegments(Tail(tokens), <<>>,
                       Append(segments, Append(current, Head(tokens))))
    ELSE splitSegments(Tail(tokens), Append(current, Head(tokens)),
                       segments)

\* The combined content: every non-empty content followed by "\n".
RECURSIVE combinedContent(_)
combinedContent(messages) ==
    IF messages = <<>> THEN <<>>
    ELSE (IF Head(messages).content = <<>> THEN <<>>
          ELSE Head(messages).content \o <<Newline>>)
         \o combinedContent(Tail(messages))

\* allContent.split("\n"): the non-empty contents.
RECURSIVE contentLines(_)
contentLines(messages) ==
    IF messages = <<>> THEN <<>>
    ELSE (IF Head(messages).content = <<>> THEN <<>>
          ELSE <<Head(messages).content>>)
         \o contentLines(Tail(messages))

\* findRepeatedPhrases: the segments and then the lines whose length is
\* within the limits, one element for each time the map counts it.
findRepeatedPhrases(messages) ==
    SelectSeq(splitSegments(combinedContent(messages), <<>>, <<>>)
                  \o contentLines(messages),
              LAMBDA phrase :
                  /\ contentLength(phrase) >= MIN_PHRASE_LENGTH
                  /\ contentLength(phrase) <= MAX_PHRASE_LENGTH)

\* The codes of the dynamic codebook: "$D" and the number padded to 2.
dynamicCodeNames == <<"$D01", "$D02", "$D03", "$D04", "$D05", "$D06">>

\* buildDynamicCodebook: the entries code -> phrase in order.
buildDynamicCodebook(messages) ==
    LET counted == findRepeatedPhrases(messages)
        count(phrase) ==
            Cardinality({k \in DOMAIN counted : counted[k] = phrase})
        savings(phrase) == (contentLength(phrase) - 4) * count(phrase)
        candidates == SelectSeq(addAll(<<>>, counted),
                                LAMBDA phrase :
                                    /\ count(phrase) >= MIN_FREQUENCY
                                    /\ savings(phrase) > 50)
        keyed == [i \in DOMAIN candidates |->
                     [item |-> candidates[i],
                      key |-> savings(candidates[i])]]
        sorted == sortDescending(keyed, <<>>)
        top == IF Len(sorted) < MAX_ENTRIES THEN Len(sorted)
               ELSE MAX_ENTRIES
    IN  [i \in 1..top |-> Entry(dynamicCodeNames[i], sorted[i].item)]

\* content.replace(regex of the phrase, "g", code) on tokens.
RECURSIVE replacePhrase(_, _, _)
replacePhrase(content, phrase, code) ==
    IF Len(content) < Len(phrase) THEN content
    ELSE IF SubSeq(content, 1, Len(phrase)) = phrase
    THEN <<Text(code)>>
         \o replacePhrase(SubSeq(content, Len(phrase) + 1, Len(content)),
                          phrase, code)
    ELSE <<Head(content)>> \o replacePhrase(Tail(content), phrase, code)

\* The replacements of one content, for the sorted phrases from k on.
RECURSIVE replacePhrases(_, _, _)
replacePhrases(content, sortedPhrases, k) ==
    IF k > Len(sortedPhrases) THEN content
    ELSE replacePhrases(
             replacePhrase(content, sortedPhrases[k].item.phrase,
                           sortedPhrases[k].item.code),
             sortedPhrases, k + 1)

\* applyDynamicCodebook: the messages and dynamicCodes as entries in order.
applyDynamicCodebook(messages) ==
    LET codebook == buildDynamicCodebook(messages)
        keyed == [i \in DOMAIN codebook |->
                     [item |-> codebook[i],
                      key |-> contentLength(codebook[i].phrase)]]
        sortedPhrases == sortDescending(keyed, <<>>)
    IN  IF Len(codebook) = 0
        THEN [messages |-> messages, dynamicCodes |-> <<>>]
        ELSE [messages |->
                 [i \in DOMAIN messages |->
                     [messages[i] EXCEPT
                        !.content = replacePhrases(@, sortedPhrases, 1)]],
              dynamicCodes |-> codebook]

\* generateDynamicCodebookHeader: the first 20 entries, a phrase of more
\* than 40 characters cut to 37 and "..."; <<>> is the empty string.
generateDynamicCodebookHeader(codebook) ==
    IF Len(codebook) = 0 THEN <<>>
    ELSE <<HeaderLine("DynDict",
              [i \in 1..(IF Len(codebook) < 20 THEN Len(codebook) ELSE 20) |->
                  Entry(codebook[i].code,
                        IF contentLength(codebook[i].phrase) > 40
                        THEN <<Sliced37>> \o codebook[i].phrase
                        ELSE codebook[i].phrase)])>>

\* generateCodebookHeader(usedCodes, pathMap): the lines of the header.
generateCodebookHeader(usedCodes, pathMap) ==
    (IF Len(usedCodes) > 0
     THEN <<HeaderLine("Dict",
               [i \in DOMAIN usedCodes |->
                   Entry(usedCodes[i],
                         <<Text(STATIC_CODEBOOK[usedCodes[i]])>>)])>>
     ELSE <<>>)
    \o (IF Len(pathMap) > 0 THEN <<HeaderLine("Paths", pathMap)>> ELSE <<>>)

\* messages.findIndex((m) => m.role === role), 0 when there is none.
findIndex(messages, role) ==
    IF \E i \in DOMAIN messages : messages[i].role = role
    THEN CHOOSE i \in DOMAIN messages :
            /\ messages[i].role = role
            /\ \A j \in 1..(i - 1) : messages[j].role # role
    ELSE 0

\* prependCodebookHeader(messages, usedCodes, pathMap)
prependCodebookHeader(messages, usedCodes, pathMap) ==
    LET header == generateCodebookHeader(usedCodes, pathMap)
        userIndex == findIndex(messages, "user")
    IN  IF header = <<>> THEN messages
        ELSE IF userIndex = 0
        THEN <<Message("system", header, "", <<>>)>> \o messages
        ELSE [messages EXCEPT ![userIndex].content = header \o @]

\* compressContext, the dynamic header: put before the content of the first
\* system message, and left out when there is none or the header is empty.
prependDynamicHeader(messages, dynHeader) ==
    IF dynHeader # <<>> /\ findIndex(messages, "system") > 0
    THEN [messages EXCEPT
            ![findIndex(messages, "system")].content = dynHeader \o @]
    ELSE messages

\* compressContext, the header step for the codes of the three layers.
addHeaders(messages, includeCodebookHeader, usedCodes, pathMap, dynamicCodes) ==
    IF ~(/\ includeCodebookHeader
         /\ \/ Len(usedCodes) > 0
            \/ Len(pathMap) > 0
            \/ Len(dynamicCodes) > 0)
    THEN messages
    ELSE IF Len(dynamicCodes) > 0
    THEN prependDynamicHeader(
             prependCodebookHeader(messages, usedCodes, pathMap),
             generateDynamicCodebookHeader(dynamicCodes))
    ELSE prependCodebookHeader(messages, usedCodes, pathMap)

\* compressContext, the result from the results l1, l3, l4 and l7 of the
\* layers.
compressionResult(config, l1, l3, l4, l7) ==
    [messages |-> addHeaders(l7.messages,
                             config.dictionary.includeCodebookHeader,
                             l3.usedCodes, l4.pathMap, l7.dynamicCodes),
     stats |-> [duplicatesRemoved |-> l1.duplicatesRemoved],
     codebook |-> l3.usedCodes,
     pathMap |-> l4.pathMap,
     dynamicCodes |-> l7.dynamicCodes]

\* compressContext from layer 7, the dynamic codebook, on.
dynamicCodebookLayer(config, l1, l3, l4) ==
    compressionResult(config, l1, l3, l4,
        IF config.layers.dynamicCodebook THEN applyDynamicCodebook(l4.messages)
        ELSE [messages |-> l4.messages, dynamicCodes |-> <<>>])

\* compressContext from layer 4, the paths, on.
pathsLayer(config, l1, l3) ==
    dynamicCodebookLayer(config, l1, l3,
        IF config.layers.paths THEN shortenPaths(l3.messages)
        ELSE [messages |-> l3.messages, pathMap |-> <<>>])

\* compressContext from layer 3, the dictionary, on.
dictionaryLayer(config, l1) ==
    pathsLayer(config, l1,
        IF config.layers.dictionary THEN encodeMessages(l1.messages, <<>>, 1)
        ELSE [messages |-> l1.messages, usedCodes |-> <<>>])

\* compressContext(messages, config) with the whitespace, jsonCompact and
\* observation layers switched off.
compressContext(messages, config) ==
    dictionaryLayer(config,
        IF config.layers.deduplication THEN deduplicateMessages(messages)
        ELSE [messages |-> messages, duplicatesRemoved |-> 0,
              originalCount |-> Len(messages)])

\* The longest list of messages handed to compressContext.
MaxContextMessages == 3

\* The contents of the messages: a greeting, static phrases, a sentence of
\* 32 characters, one of 63, and five paths with a common prefix.
ContextContents ==
    {<<Text("Hi.")>>,
     <<Text("<name>"), Text("Hi.")>>,
     <<Text("description:"), Text("Hi.")>>,
     <<Text("Please review the attached file.")>>,
     <<Text("Please review the attached file and report every problem found.")>>,
     <<Path(<<"home", "user", "project", "a.ts">>),
       Path(<<"home", "user", "project", "b.ts">>),
       Path(<<"home", "user", "project", "c.ts">>),
       Path(<<"home", "user", "docs", "r.md">>),
       Path(<<"home", "user", "docs", "s.md">>)>>}

ContextMessages ==
    {Message(role, content, "", <<>>) :
        role \in {"system", "user", "assistant"}, content \in ContextContents}

ContextMessageLists ==
    UNION {[1..n -> ContextMessages] : n \in 1..MaxContextMessages}

\* The configurations: every combination of the layers that substitute
\* codes, with and without deduplication and the header.
CompressionConfigs ==
    [layers : [deduplication : BOOLEAN, dictionary : BOOLEAN,
               paths : BOOLEAN, dynamicCodebook : BOOLEAN],
     dictionary : [includeCodebookHeader : BOOLEAN]]

CompressContextInit ==
    /\ now = 0
    /\ inflight = EmptyMap
    /\ completed = EmptyMap
    /\ promises = <<>>
    /\ reqs = [r \in 1..MaxRequests |-> NoRequest]
    /\ \E messages \in ContextMessageLists : \E config \in CompressionConfigs :
          call = [fn |-> "compressContext",
                  arg |-> [messages |-> messages, config |-> config],
                  ret |-> <<>>, done |-> FALSE]

\* A call of compressContext.
CompressContext ==
    /\ call.fn = "compressContext"
    /\ ~call.done
    /\ call' = [call EXCEPT
                  !.ret = compressContext(call.arg.messages, call.arg.config),
                  !.done = TRUE]
    /\ UNCHANGED <<now, inflight, completed, promises, reqs>>

CompressContextNext == CompressContext

CompressContextSpec == CompressContextInit /\ [][CompressContextNext]_vars

---------------------------------------------------------------------------
(* Claims about the headers of compressContext. *)

\* The tokens of the contents of the messages.
ContentTokens(messages) ==
    UNION {{messages[i].content[k] : k \in DOMAIN messages[i].content} :
              i \in DOMAIN messages}

\* The codes that occur in the contents outside the header lines.
CodesInContent(messages) ==
    {token.v[1] : token \in
        {t \in ContentTokens(messages) :
            \/ t.t = "short"
            \/ /\ t.t = "text"
               /\ \/ t.v[1] \in DOMAIN STATIC_CODEBOOK
                  \/ \E i \in DOMAIN dynamicCodeNames :
                        dynamicCodeNames[i] = t.v[1]}}

\* The entries of the header lines of the contents.
HeaderEntries(messages) ==
    UNION {{token.entries[k] : k \in DOMAIN token.entries} :
              token \in {t \in ContentTokens(messages) : t.t = "header"}}

\* The phrases that the layers of the returned call replaced with the code.
ReplacedPhrases(code) ==
    {<<Text(STATIC_CODEBOOK[call.ret.codebook[i]])>> :
        i \in {k \in DOMAIN call.ret.codebook : call.ret.codebook[k] = code}}
    \cup {call.ret.pathMap[i].phrase :
            i \in {k \in DOMAIN call.ret.pathMap :
                      call.ret.pathMap[k].code = code}}
    \cup {call.ret.dynamicCodes[i].phrase :
            i \in {k \in DOMAIN call.ret.dynamicCodes :
                      call.ret.dynamicCodes[k].code = code}}

\* A call of compressContext with the codebook header switched on returned.
ReturnedWithHeaderOn ==
    /\ Returned("compressContext")
    /\ call.arg.config.dictionary.includeCodebookHeader

\* C24: every code that occurs in the content of the compressed messages
\* has a header entry in the output, and the header entries of the code
\* name exactly the one phrase that the code replaced, for every
\* combination of layers and every message list.
C24_CodesResolveThroughHeaders ==
    ReturnedWithHeaderOn
        => \A code \in CodesInContent(call.ret.messages) :
              /\ Cardinality(ReplacedPhrases(code)) = 1
              /\ {e.phrase : e \in {x \in HeaderEntries(call.ret.messages) :
                                       x.code = code}}
                    = ReplacedPhrases(code)

\* The kinds of header lines at the start of a content, in order.
RECURSIVE leadingHeaderKinds(_)
leadingHeaderKinds(content) ==
    IF content = <<>> \/ Head(content).t # "header" THEN <<>>
    ELSE <<Head(content).v[1]>> \o leadingHeaderKinds(Tail(content))

\* The kinds of header lines that the codes of the returned call need.
NeededHeaderKinds ==
    (IF Len(call.ret.codebook) > 0 THEN <<"Dict">> ELSE <<>>)
    \o (IF Len(call.ret.pathMap) > 0 THEN <<"Paths">> ELSE <<>>)
    \o (IF Len(call.ret.dynamicCodes) > 0 THEN <<"DynDict">> ELSE <<>>)

\* C25: when any code was substituted (and the messages have a user
\* message), the [Dict], [Paths] and [DynDict] lines that the codes need
\* stand at the start of the content of the first user message, and no
\* system message has a header line in its content.
C25_HeaderBlockInFirstUserMessage ==
    (/\ ReturnedWithHeaderOn
     /\ NeededHeaderKinds # <<>>
     /\ findIndex(call.ret.messages, "user") > 0)
        => /\ leadingHeaderKinds(
                 call.ret.messages[findIndex(call.ret.messages,
                                             "user")].content)
                 = NeededHeaderKinds
           /\ \A i \in DOMAIN call.ret.messages :
                 call.ret.messages[i].role = "system"
                    => \A k \in DOMAIN call.ret.messages[i].content :
                          call.ret.messages[i].content[k].t # "header"

---------------------------------------------------------------------------
(* The wallet key, src/src/auth.ts.  A key is its first two characters and
   the rest; the keys of the model are made of hexadecimal digits, so
   privateKeyToAccount accepts every key that passes the checks of the
   format.  The process of a call is the record call: its environment
   variable BLOCKRUN_WALLET_KEY (env), the file WALLET_FILE as the call
   finds and leaves it (file), and the number of the process (starts). *)

\* A string that starts with prefix and goes on with rest.
KeyString(prefix, rest) == [prefix |-> prefix, rest |-> rest]

\* key.startsWith("0x") && key.length === 66
isWellFormed(key) == key.prefix = "0x" /\ Len(key.prefix) + Len(key.rest) = 66

\* The keys that generatePrivateKey() can return.
GeneratedKeys ==
    {KeyString("0x", "1111111111111111111111111111111111111111111111111111111111111111"),
     KeyString("0x", "2222222222222222222222222222222222222222222222222222222222222222")}

\* Values of BLOCKRUN_WALLET_KEY: unset, the key of the test, a key of 65
\* characters and a key without the prefix.
WalletEnvs ==
    {Absent,
     Present(KeyString("0x", "aaaaaaaaaaaaaaaaaaaaaaaaaaaaaaaaaaaaaaaaaaaaaaaaaaaaaaaaaaaaaaaa")),
     Present(KeyString("0x", "aaaaaaaaaaaaaaaaaaaaaaaaaaaaaaaaaaaaaaaaaaaaaaaaaaaaaaaaaaaaaaa")),
     Present(KeyString("aa", "aaaaaaaaaaaaaaaaaaaaaaaaaaaaaaaaaaaaaaaaaaaaaaaaaaaaaaaaaaaaaaaa"))}

\* The text of a file: a key and the "\n" after it, if any.
FileText(key, newline) == [key |-> key, newline |-> newline]

\* String.prototype.trim on the text of a file.
trim(text) == text.key

\* The wallet file before the first start: none, or a file whose key has
\* 65 characters.
InitialWalletFiles ==
    {Absent, Present(FileText(KeyString("0x", "aaaaaaaaaaaaaaaaaaaaaaaaaaaaaaaaaaaaaaaaaaaaaaaaaaaaaaaaaaaaaaa"), ""))}

\* How readFile(WALLET_FILE) can end: with the text of the file, with
\* ENOENT when there is no file, or with another error.
ReadOutcomes(file) ==
    (IF file.present
     THEN {[ok |-> TRUE, text |-> file.value, code |-> ""]}
     ELSE {[ok |-> FALSE, text |-> FileText(KeyString("", ""), ""),
            code |-> "ENOENT"]})
    \cup {[ok |-> FALSE, text |-> FileText(KeyString("", ""), ""),
           code |-> "EACCES"]}

\* loadSavedWallet: the key of the file that was read, or undefined.
loadSavedWallet(read) ==
    IF read.ok /\ isWellFormed(trim(read.text)) THEN Present(trim(read.text))
    ELSE Absent

\* How generateAndSaveWallet can end: mkdir or writeFile throws, the file
\* is written and read back, or the file is written and the read throws.
SaveOutcomes == {"write throws", "verified", "verification throws"}

\* generateAndSaveWallet with the generated key and the way it ends: the
\* wallet file and the result.
generateAndSaveWallet(file, key, save) ==
    [file |-> IF save = "write throws" THEN file
              ELSE Present(FileText(key, "\n")),
     ret |-> IF save = "verified"
             THEN [threw |-> FALSE, key |-> Present(key),
                   source |-> "generated"]
             ELSE [threw |-> TRUE, key |-> Absent, source |-> ""]]

\* resolveOrGenerateWalletKey with the environment variable checked before
\* the saved wallet.
resolveEnvBeforeSaved(file, env, read, key, save) ==
    IF env.present /\ isWellFormed(env.value)
    THEN [file |-> file,
          ret |-> [threw |-> FALSE, key |-> env, source |-> "env"]]
    ELSE IF loadSavedWallet(read).present
    THEN [file |-> file,
          ret |-> [threw |-> FALSE, key |-> loadSavedWallet(read),
                   source |-> "saved"]]
    ELSE generateAndSaveWallet(file, key, save)

\* resolveOrGenerateWalletKey: saved wallet, then environment variable,
\* then a generated wallet.
resolveOrGenerateWalletKey(file, env, read, key, save) ==
    LET saved == loadSavedWallet(read)
    IN  IF saved.present
        THEN [file |-> file,
              ret |-> [threw |-> FALSE, key |-> saved, source |-> "saved"]]
        ELSE IF env.present /\ isWellFormed(env.value)
        THEN [file |-> file,
              ret |-> [threw |-> FALSE, key |-> env, source |-> "env"]]
        ELSE generateAndSaveWallet(file, key, save)

\* The most processes started one after the other.
MaxStarts == 3

WalletInit ==
    /\ now = 0
    /\ inflight = EmptyMap
    /\ completed = EmptyMap
    /\ promises = <<>>
    /\ reqs = [r \in 1..MaxRequests |-> NoRequest]
    /\ \E file \in InitialWalletFiles : \E env \in WalletEnvs :
          call = [fn |-> "resolveOrGenerateWalletKey", arg |-> <<>>,
                  env |-> env, file |-> file, read |-> <<>>, starts |-> 1,
                  ret |-> <<>>, done |-> FALSE]

\* The call of resolveOrGenerateWalletKey at the start of a process.
ResolveOrGenerateWalletKey ==
    /\ call.fn = "resolveOrGenerateWalletKey"
    /\ ~call.done
    /\ \E read \in ReadOutcomes(call.file) : \E key \in GeneratedKeys :
       \E save \in SaveOutcomes :
          LET result == resolveOrGenerateWalletKey(call.file, call.env,
                                                   read, key, save)
          IN  call' = [call EXCEPT !.file = result.file, !.read = read,
                                   !.ret = result.ret, !.done = TRUE]
    /\ UNCHANGED <<now, inflight, completed, promises, reqs>>

\* The process ends and a new one starts, with any environment; the file
\* stays as it is.
Restart ==
    /\ call.fn = "resolveOrGenerateWalletKey"
    /\ call.done
    /\ call.starts < MaxStarts
    /\ \E env \in WalletEnvs :
          call' = [call EXCEPT !.env = env, !.read = <<>>, !.ret = <<>>,
                               !.done = FALSE, !.starts = @ + 1]
    /\ UNCHANGED <<now, inflight, completed, promises, reqs>>

WalletNext == ResolveOrGenerateWalletKey \/ Restart

WalletSpec == WalletInit /\ [][WalletNext]_vars

\* A call of resolveOrGenerateWalletKey ends in this step.
WalletCallEnds ==
    call.fn = "resolveOrGenerateWalletKey" /\ ~call.done /\ call'.done

\* The wallet file holds a key that a call generated and saved.
WalletSaved == call.file.present /\ isWellFormed(trim(call.file.value))

\* C26: once a wallet key is generated and saved, every later call of
\* resolveOrGenerateWalletKey, in this process or after any restarts,
\* returns that key with source saved, and no step writes the wallet file
\* again.
C26_SavedWalletNeverRegenerated ==
    [][/\ WalletSaved => call'.file = call.file
       /\ (WalletSaved /\ WalletCallEnds)
             => /\ ~call'.ret.threw
                /\ call'.ret.key = Present(trim(call.file.value))
                /\ call'.ret.source = "saved"]_vars

\* A call returned with a well-formed key in BLOCKRUN_WALLET_KEY.
ReturnedWithEnvKey ==
    /\ Returned("resolveOrGenerateWalletKey")
    /\ call.env.present
    /\ isWellFormed(call.env.value)

---------------------------------------------------------------------------
(* Claims about the token estimate and the baseline, checked under
   RouterSpec *)

\* len(system) of the returned call of route: 0 without a system prompt.
SystemLength ==
    IF call.arg.systemPrompt.present
    THEN textLength(call.arg.systemPrompt.value) ELSE 0

\* The returned decision of route with characters as the length of the
\* estimated text: it is the large-context decision exactly when
\* ceil(characters / 4) exceeds maxTokensForceComplex, and its cost estimate
\* counts ceil(characters / 4) input tokens.
DecidedWithLength(characters) ==
    LET estimatedTokens == (characters + 3) \div 4
    IN  /\ (call.ret.reasoning[1] = "exceeds")
              <=> (estimatedTokens
                      > call.arg.config.overrides.maxTokensForceComplex)
        /\ call.ret.costEstimate
              = costOf(call.arg.modelPricing, call.ret.model,
                       estimatedTokens, call.arg.maxOutputTokens)

\* C28 as stated: route computes estimatedTokens as
\* ceil((len(system) + len(prompt)) / 4), with len(system) = 0 when there is
\* no system prompt, compares this value with maxTokensForceComplex and
\* uses it as the input token count of the cost estimate.
C28_EstimateOfSystemAndPrompt ==
    Returned("route")
        => DecidedWithLength(SystemLength + call.arg.promptLength)

\* C28, amended: the estimate is ceil((len(system) + 1 + len(prompt)) / 4),
\* the 1 for the space that joins the two texts also when there is no
\* system prompt; this value is compared with maxTokensForceComplex and is
\* the input token count of the cost estimate.
C28_EstimateOfJoinedText ==
    Returned("route")
        => DecidedWithLength(SystemLength + 1 + call.arg.promptLength)

\* A prompt of 32000 characters without a system prompt was estimated at
\* 8001 tokens: routed as large context under the premium profile and
\* priced with 8001 input tokens.
C28_Witness ==
    /\ Returned("route")
    /\ ~call.arg.systemPrompt.present
    /\ call.arg.promptLength = 32000
    /\ call.arg.routingProfile = "premium"
    /\ call.ret.reasoning[1] = "exceeds"
    /\ call.ret.model = "anthropic/claude-opus-4"
    /\ call.ret.costEstimate = 8001 * 1500 + 4096 * 7500

\* C29: with LIONHEART_MODEL_PRICING as the pricing table, the baseline
\* entry of the table is the denominator of savings: baselineCost is
\* positive for every call with a positive token count, and a model that
\* costs nothing has savings 1 under every profile but premium.
C29_BaselineIsDenominator ==
    (/\ call.done
     /\ call.fn \in {"selectModel", "calculateModelCost"}
     /\ call.arg.modelPricing = LIONHEART_MODEL_PRICING
     /\ call.arg.estimatedInputTokens + call.arg.maxOutputTokens > 0)
        => /\ call.ret.baselineCost > 0
           /\ (/\ priceOf(LIONHEART_MODEL_PRICING, PricedModel) = Price(0, 0)
               /\ call.arg.routingProfile # "premium")
                 => /\ call.ret.savings.num = call.ret.savings.den
                    /\ call.ret.savings.den > 0

---------------------------------------------------------------------------
(* Claim about the result of deduplicateMessages, checked under
   CompressionSpec *)

\* The elements of seq at the indices of kept, in order, from index i on.
RECURSIVE elementsAt(_, _, _)
elementsAt(seq, kept, i) ==
    IF i > Len(seq) THEN <<>>
    ELSE (IF i \in kept THEN <<seq[i]>> ELSE <<>>)
         \o elementsAt(seq, kept, i + 1)

\* The two messages have the same role, content, tool_call_id and name,
\* and tool calls of the same functions with the same arguments.
SameSummary(m1, m2) ==
    /\ m1.role = m2.role
    /\ m1.content = m2.content
    /\ m1.tool_call_id = m2.tool_call_id
    /\ m1.name = m2.name
    /\ m1.has_tool_calls = m2.has_tool_calls
    /\ Len(m1.tool_calls) = Len(m2.tool_calls)
    /\ \A c \in DOMAIN m1.tool_calls :
          /\ m1.tool_calls[c].name = m2.tool_calls[c].name
          /\ m1.tool_calls[c].args = m2.tool_calls[c].args

\* The two messages are the same in every field.
ExactDuplicate(m1, m2) == m1 = m2

\* The returned messages are the input at the indices of kept; every
\* message left out is an assistant message that duplicates an earlier
\* message kept, exactly or in its summary; and duplicatesRemoved counts
\* the messages left out.
KeptAllBut(kept, exact) ==
    /\ call.ret.messages = elementsAt(call.arg, kept, 1)
    /\ \A i \in DOMAIN call.arg \ kept :
          /\ call.arg[i].role = "assistant"
          /\ \E j \in kept :
                /\ j < i
                /\ IF exact THEN ExactDuplicate(call.arg[j], call.arg[i])
                   ELSE SameSummary(call.arg[j], call.arg[i])
    /\ call.ret.duplicatesRemoved = Len(call.arg) - Len(call.ret.messages)

=============================================================================
